---- MODULE Spec2Model ----
(***************************************************************************)
(* Live-Translate: the real-time fan-out translation pipeline.             *)
(*   main.py        LiveTranslator: segmenter/recognition thread,          *)
(*                  translation thread, TTS thread, start/stop             *)
(*   translator.py  Translator.translate: DeepL -> Microsoft -> Libre      *)
(*   streamer.py    LiveKitStreamer: per-language queues and threads       *)
(*                                                                         *)
(* Threads are modelled from one blocking call to the next: an action is   *)
(* everything a thread does between two blocking points (a queue get, an   *)
(* external call in flight, a sleep).                                      *)
(***************************************************************************)
EXTENDS Integers, Sequences, FiniteSets, TLC

(***************************************************************************)
(* Bounds of the model.                                                    *)
(***************************************************************************)
\* wall-clock horizon, in seconds
MaxSeconds == 6
\* number of utterances the segmenter may emit in one run
MaxUtt == 2
\* thread objects that may exist per stage (one per start() call)
MaxThreads == 2
\* number of configured target languages
NumLangs == 2
\* exceptions a stage loop catches in one behaviour
MaxErrors == 1
\* chunks counted as produced since the last capture failure
MaxProduced == 1
\* speaker ids, and set_active_speaker calls in one behaviour
MaxSpeakers == 2
MaxSets == 1
\* start()/stop() calls and push_audio calls made directly on the streamer
MaxCalls == 3
MaxPushes == 2
\* coroutines scheduled on the voice clone manager's event loop
MaxTasks == 3

\* config.SAMPLE_RATE as main.py line 121 uses it: samples per second. A sample
\* of the model is a block of samples half a second long, and the clock ticks
\* once per sample.
SAMPLE_RATE == 2

MaxTime == MaxSeconds * SAMPLE_RATE

(***************************************************************************)
(* Values.                                                                 *)
(***************************************************************************)
\* a text: the utterance it came from and who produced it ("zh" = recognizer)
Str(id, by) == [id |-> id, by |-> by]
\* the empty string ""
EmptyStr == [id |-> 0, by |-> "empty"]
\* Python's None
None == [id |-> 0, by |-> "None"]
\* Python truthiness of an optional string: neither None nor ""
Truthy(s) == s # None /\ s # EmptyStr
\* an exception escaping an external call, as the histories record it
Raised == [id |-> 0, by |-> "raised"]
\* a string of blanks only
Whitespace == [id |-> 0, by |-> "blank"]
\* str.strip()
Strip(s) == IF s = Whitespace THEN EmptyStr ELSE s

AfterGet_DropTwo(q) == IF Len(q) > 1 THEN Tail(Tail(q)) ELSE Tail(q)

\* main.py lines 199, 225: queue.get() removes the item it returns, the oldest
AfterGet(q) == Tail(q)

\* an audio buffer is summarised by what the code reads of it: its length
\* (ticks) and the sum of its squared samples (amplitude units^2 * ticks)
EmptyBuffer == [len |-> 0, sq |-> 0]

Threads == 1..MaxThreads

(***************************************************************************)
(* Segmenter constants (locals of _transcribe_thread_func).                *)
(***************************************************************************)
\* 0.01; amplitudes are counted in units of 0.01
silence_threshold == 1
\* 1.0 s, in ticks
min_audio_length == 1 * SAMPLE_RATE
\* 10.0 s, in ticks
max_audio_length == 10 * SAMPLE_RATE
\* the literal 3.0 of the emission test, in ticks
idle_gap_TwoSeconds == 2 * SAMPLE_RATE
idle_gap == 3 * SAMPLE_RATE

\* chunk durations (ticks) and amplitudes the capture source may deliver
ChunkTicks == {1, max_audio_length \div 2}
Levels == {0, silence_threshold + 1}

VARIABLES
    running,                  \* LiveTranslator.running
    stopping,                 \* LiveTranslator.stop() is waiting in its joins
    now,                      \* wall clock, time.time(), in ticks
    text_queue,               \* LiveTranslator.text_queue
    seg_pc,                   \* per segmenter thread: "dead" | "idle" | "transcribing"
    audio_buffer,             \* per thread: local audio_buffer
    last_transcription_time,  \* per thread: local last_transcription_time
    current_time,             \* per thread: local current_time
    buffer_seconds,           \* per thread: local buffer_seconds
    time_since_last,          \* per thread: local time_since_last
    audio_data,               \* per thread: the utterance handed to _transcribe_audio
    emitted,                  \* history: RMS class of every emitted utterance, by id
    recog_log,                \* history: ids passed to _transcribe_audio, in call order
    recog_result,             \* history: per thread, what the model did in its last call
    services_available,       \* Translator.services_available
    deepl_api_key,            \* Translator.deepl_api_key is set
    ms_translator_key,        \* Translator.ms_translator_key is set
    translation_queue,        \* LiveTranslator.translation_queue
    tr_pc,                    \* per translation thread: "dead" | "idle" | "call" | "sleep"
    tr_text,                  \* per thread: the text translate() was called with
    tr_lang,                  \* per thread: index in targets of the language in hand
    tr_provider,              \* per thread: index in Chain of the provider call in flight
    translations,             \* per thread: local dict translations of translate()
    service_used,             \* per thread: local service_used, kept per language
    tr_calls,                 \* history: provider calls of the current translate()
    tts_pc,                   \* per TTS thread: "dead" | "idle" | "synth"
    tts_texts,                \* per thread: the dict synthesize_multiple was called with
    tts_idx,                  \* per thread: index in DictOrder of the language in hand
    audio_data_dict,          \* per thread: local dict results of synthesize_multiple
    engine_type,              \* TTSEngine.engine_type
    google_client,            \* TTSEngine.google_client is set
    syn_pc,                   \* a direct synthesize_multiple call: "idle" | "clone" |
                              \*   "google" | "edge" | "done"
    syn_texts,                \* its argument texts
    syn_emb,                  \* its argument speaker_embedding is not None
    syn_idx,                  \* index in DictOrder of the language in hand
    syn_results,              \* its local dict results
    syn_calls,                \* history: the backend calls it made and their outcomes
    temp_files,               \* the files in TTSEngine.temp_dir, by language
    cap_running,              \* AudioInputManager.running
    cap_pc,                   \* the capture thread: "new" | "opening" | "reading" |
                              \*   "mock" | "dead"
    cap_source,               \* what the capture thread reads: "device" | "mock"
    audio_queue,              \* number of chunks in AudioInputManager.audio_queue
    pending_puts,             \* number of audio_queue.put coroutines scheduled on the
                              \*   event loop and not completed
    cap_error,                \* history: the failure the capture thread met last
    produced,                 \* history: number of chunks the capture thread submitted
    active_speakers,          \* VoiceCloneManager.active_speakers, as (lang, id) pairs
    models_loaded,            \* VoiceCloneManager.models_loaded
    loading_in_progress,      \* VoiceCloneManager.loading_in_progress
    set_calls,                \* history: the set_active_speaker calls made, each
                              \* with the speaker it found active (0: none)
    status_out,               \* history: the status the last status query reported
    tasks,                    \* per coroutine on the manager's event loop: what it
                              \* is, where it stands, and (history) the outcome
                              \* of the load it ran and of the call
    loop_owner,               \* the coroutine the event loop is running (0: none)
    load_lock,                \* VoiceCloneManager.load_lock: its holder (0: free)
    loop_errors,              \* history: per stage, exceptions caught by its loop
    push_call,                \* the push_audio call that passed its tests and has
                              \*   not yet put its audio
    last_push,                \* history: the last push_audio call and its verdict
    st_calls,                 \* history: the start() and stop() calls made on the
                              \*   streamer, with their outcomes
    st_extra,                 \* per language: threads alive that streaming_threads
                              \*   no longer holds
    set_log,                  \* history: the utterances whose translation sets were
                              \*   put on translation_queue, in order
    push_log,                 \* history: the utterances whose audio was handed to
                              \*   push_audio_multiple, in order
    st_running,               \* LiveKitStreamer.running
    audio_queues,             \* LiveKitStreamer.audio_queues
    stream_pc,                \* per language: "dead" | "idle" | "pushing" | "error"
    pushed,                   \* history: the dict of the last push_audio_multiple call
    push_count,               \* history: number of push_audio_multiple calls
    published                 \* history: per language, ids taken by its streaming thread

segVars == <<now, seg_pc, audio_buffer, last_transcription_time, current_time,
             buffer_seconds, time_since_last, audio_data, emitted, recog_log,
             recog_result>>

trConf == <<services_available, deepl_api_key, ms_translator_key>>

trVars == <<translation_queue, tr_pc, tr_text, tr_lang, tr_provider, translations,
            service_used, tr_calls>>

ttsVars == <<tts_pc, tts_texts, tts_idx, audio_data_dict>>

synVars == <<engine_type, google_client, syn_pc, syn_texts, syn_emb, syn_idx,
             syn_results, syn_calls, temp_files>>

capVars == <<cap_running, cap_pc, cap_source, audio_queue, pending_puts, cap_error,
             produced>>

taskVars == <<tasks, loop_owner, load_lock>>

cloneVars == <<active_speakers, models_loaded, loading_in_progress, set_calls, status_out,
              taskVars>>

stxVars == <<push_call, last_push, st_calls, st_extra>>

logVars == <<set_log, push_log>>

auxVars == <<capVars, cloneVars, stxVars, logVars, loop_errors>>

stVars == <<st_running, audio_queues, stream_pc, pushed, push_count, published>>

vars == <<running, stopping, text_queue, segVars, trConf, synVars, auxVars, trVars, ttsVars, stVars>>

(***************************************************************************)
(* The segmenter / recognition thread: main.py _transcribe_thread_func.    *)
(***************************************************************************)
ShouldEmit_NoMin(d, since) ==
    d >= max_audio_length \/ since >= idle_gap

\* line 128: the emission test
ShouldEmit(d, since) ==
    d >= min_audio_length /\ (d >= max_audio_length \/ since >= idle_gap)

\* line 133: rms = sqrt(mean(x^2)); compared through its square
RmsClass(buf) ==
    IF buf.sq < silence_threshold * silence_threshold * buf.len THEN "below"
    ELSE IF buf.sq = silence_threshold * silence_threshold * buf.len THEN "equal"
    ELSE "above"

PassesSilenceGate_Always(buf) == TRUE

PassesSilenceGate_Sum(buf) ==
    buf.sq > silence_threshold * silence_threshold

\* line 135: rms > silence_threshold
PassesSilenceGate(buf) ==
    buf.sq > silence_threshold * silence_threshold * buf.len

LoopHead_Ignored == "idle"

\* line 111: the loop test a thread makes before blocking again
LoopHead == IF running THEN "idle" ELSE "dead"

\* lines 114-150 up to the call of _transcribe_audio: a chunk of `dur` ticks at
\* amplitude `amp` is returned by get_audio_chunk, `dt` ticks after the clock
\* was last read
SegChunk(s, dur, amp, dt) ==
    /\ seg_pc[s] = "idle"
    /\ now + dt <= MaxTime
    /\ Len(emitted) < MaxUtt
    /\ LET buf   == [len |-> audio_buffer[s].len + dur,
                     sq  |-> audio_buffer[s].sq + amp * amp * dur]
           t     == now + dt
           since == t - last_transcription_time[s]
       IN  /\ now' = t
           /\ buffer_seconds' = [buffer_seconds EXCEPT ![s] = buf.len]
           /\ current_time' = [current_time EXCEPT ![s] = t]
           /\ time_since_last' = [time_since_last EXCEPT ![s] = since]
           /\ IF ShouldEmit(buf.len, since)
              THEN /\ emitted' = Append(emitted, RmsClass(buf))
                   /\ IF PassesSilenceGate(buf)
                      THEN \* _transcribe_audio is called: the thread blocks in it
                           /\ seg_pc' = [seg_pc EXCEPT ![s] = "transcribing"]
                           /\ audio_data' = [audio_data EXCEPT ![s] = Len(emitted) + 1]
                           /\ audio_buffer' = [audio_buffer EXCEPT ![s] = buf]
                           /\ recog_log' = Append(recog_log, Len(emitted) + 1)
                           /\ UNCHANGED last_transcription_time
                      ELSE \* silence: lines 149-150 only
                           /\ audio_buffer' = [audio_buffer EXCEPT ![s] = EmptyBuffer]
                           /\ last_transcription_time' =
                                  [last_transcription_time EXCEPT ![s] = t]
                           /\ seg_pc' = [seg_pc EXCEPT ![s] = LoopHead]
                           /\ UNCHANGED <<audio_data, recog_log>>
              ELSE /\ audio_buffer' = [audio_buffer EXCEPT ![s] = buf]
                   /\ seg_pc' = [seg_pc EXCEPT ![s] = LoopHead]
                   /\ UNCHANGED <<emitted, audio_data, recog_log,
                                  last_transcription_time>>
    /\ UNCHANGED <<running, stopping, ttsVars, stVars, text_queue, trConf, synVars, auxVars, trVars,
                   recog_result>>

\* lines 114-116, 152-154: get_audio_chunk times out (None or queue.Empty)
SegTimeout(s, dt) ==
    /\ seg_pc[s] = "idle"
    /\ now + dt <= MaxTime
    /\ now' = now + dt
    /\ seg_pc' = [seg_pc EXCEPT ![s] = LoopHead]
    /\ UNCHANGED <<running, stopping, ttsVars, stVars, text_queue, audio_buffer, last_transcription_time,
                   current_time, buffer_seconds, time_since_last, audio_data,
                   emitted, recog_log, recog_result, trConf, synVars, auxVars, trVars>>

\* what the Whisper model may do with utterance `id`: raise, or answer nothing,
\* blanks, or a text
RecognizerOutcomes(id) == {Raised, EmptyStr, Whitespace, Str(id, "zh")}

TranscribeAudio_NoCatch(raw) == raw

TimerAfterEmission_AtReturn(emission_time, return_time) == return_time

\* line 150: last_transcription_time = current_time, the clock value read at
\* line 124 before the recognizer was called
TimerAfterEmission(emission_time, return_time) == emission_time

\* lines 159-190: _transcribe_audio returns the stripped text, "" if the model raised
TranscribeAudio(raw) == IF raw = Raised THEN EmptyStr ELSE Strip(raw)

\* lines 141-150: _transcribe_audio returns, `dt` ticks after the clock was last
\* read, with the model having done `raw`; a text that is non-empty after
\* strip() is queued, then the buffer and the timer are reset
TranscribeReturn(s, raw, dt) ==
    /\ seg_pc[s] = "transcribing"
    /\ now + dt <= MaxTime
    /\ now' = now + dt
    /\ recog_result' = [recog_result EXCEPT ![s] = raw]
    /\ LET text == TranscribeAudio(raw)
       IN  text_queue' = IF Truthy(text) /\ Truthy(Strip(text))
                         THEN Append(text_queue, text) ELSE text_queue
    /\ audio_buffer' = [audio_buffer EXCEPT ![s] = EmptyBuffer]
    /\ last_transcription_time' =
           [last_transcription_time EXCEPT
               ![s] = TimerAfterEmission(current_time[s], now + dt)]
    /\ audio_data' = [audio_data EXCEPT ![s] = 0]
    /\ seg_pc' = [seg_pc EXCEPT ![s] = LoopHead]
    /\ UNCHANGED <<running, stopping, ttsVars, stVars, current_time, buffer_seconds,
                   time_since_last, emitted, recog_log, trConf, synVars, auxVars, trVars>>

\* lines 105-106: the locals of a thread that has not run yet
InitSegLocals ==
    /\ now = 0
    /\ audio_buffer = [s \in Threads |-> EmptyBuffer]
    /\ last_transcription_time = [s \in Threads |-> 0]
    /\ current_time = [s \in Threads |-> 0]
    /\ buffer_seconds = [s \in Threads |-> 0]
    /\ time_since_last = [s \in Threads |-> 0]
    /\ audio_data = [s \in Threads |-> 0]
    /\ emitted = <<>>
    /\ recog_log = <<>>
    /\ recog_result = [s \in Threads |-> None]


(***************************************************************************)
(* Translator: translator.py.                                              *)
(***************************************************************************)
\* language codes of the deployment, in the order of TARGET_LANGUAGES
LangNames == <<"en", "vi", "ms", "th", "ko">>
\* line 37: self.target_languages = list(TARGET_LANGUAGES.keys())
target_languages == SubSeq(LangNames, 1, NumLangs)
TargetSet == {target_languages[i] : i \in 1..NumLangs}

\* the provider chain in the order translate() tries it
Chain == <<"deepl", "microsoft", "libre">>


\* what a provider call for `text` may return: None (any failure the provider
\* function catches), "", the text unchanged, or a translation of its own
ProviderOutcomes(text, p) == {None, EmptyStr, text, Str(text.id, p)}

ProviderGuard_IgnoreFlags(p, translation) ==
    CASE p = "deepl"     -> TRUE
      [] p = "microsoft" -> translation = None
      [] p = "libre"     -> translation = None

ProviderGuard_NoShortCircuit(p, translation) ==
    CASE p = "deepl"     -> services_available["deepl"] /\ deepl_api_key
      [] p = "microsoft" -> services_available["microsoft"] /\ ms_translator_key
      [] p = "libre"     -> services_available["libre"]

\* lines 265, 273, 281: whether provider p is called, given the translation so far
ProviderGuard(p, translation) ==
    CASE p = "deepl"     -> services_available["deepl"] /\ deepl_api_key
      [] p = "microsoft" -> translation = None /\ services_available["microsoft"]
                                               /\ ms_translator_key
      [] p = "libre"     -> translation = None /\ services_available["libre"]

\* lines 264-284: the first provider from position i on that is called; 0 if none
RECURSIVE NextProvider(_, _)
NextProvider(i, translation) ==
    IF i > Len(Chain) THEN 0
    ELSE IF ProviderGuard(Chain[i], translation) THEN i
    ELSE NextProvider(i + 1, translation)

EntryFor_NoFallback(text, translation) == translation

\* lines 287-292: the entry stored for a language
EntryFor(text, translation) == IF translation = None THEN text ELSE translation

\* lines 262, 267-268, 275-276, 283-284, 289: service_used after provider p
\* returned `translation` (p = 0: no provider was called)
ServiceUsed(p, translation) ==
    IF translation = None THEN "fallback"
    ELSE IF Truthy(translation) THEN Chain[p]
    ELSE "unknown"

OnException_Skip(tr, lang, text) == tr

FlagsAfterCall_DisableOnFailure(flags, p, result) ==
    IF result \in {None, Raised} THEN [flags EXCEPT ![p] = FALSE] ELSE flags

\* lines 264-296: services_available after provider p returned `result` or
\* raised: translate() reads the flags and assigns none
FlagsAfterCall(flags, p, result) == flags

\* lines 294-296: the except branch stores the source text
OnException(tr, lang, text) == (lang :> text) @@ tr

\* the translation thread t moves on to language number i of `text`: either a
\* provider call is in flight next, or no provider is available and the entry
\* is the source text at once (then the thread sleeps, line 299)
StartLang(t, i, text, tr, su, calls) ==
    LET p == NextProvider(1, None)
        lang == target_languages[i]
    IN  /\ tr_text' = [tr_text EXCEPT ![t] = text]
        /\ tr_lang' = [tr_lang EXCEPT ![t] = i]
        /\ tr_calls' = [tr_calls EXCEPT ![t] = calls]
        /\ IF p # 0
           THEN /\ tr_pc' = [tr_pc EXCEPT ![t] = "call"]
                /\ tr_provider' = [tr_provider EXCEPT ![t] = p]
                /\ translations' = [translations EXCEPT ![t] = tr]
                /\ service_used' = [service_used EXCEPT ![t] = su]
           ELSE /\ tr_pc' = [tr_pc EXCEPT ![t] = "sleep"]
                /\ tr_provider' = [tr_provider EXCEPT ![t] = 0]
                /\ translations' = [translations EXCEPT ![t] =
                                       (lang :> EntryFor(text, None)) @@ tr]
                /\ service_used' = [service_used EXCEPT ![t] =
                                       (lang :> ServiceUsed(0, None)) @@ su]

NoDict == [l \in {} |-> None]

\* main.py lines 199-203 and translator.py lines 251-266: the thread takes a
\* text from text_queue and calls translate_all, which starts on the first language
TranslateGet(t) ==
    /\ tr_pc[t] = "idle"
    /\ text_queue # <<>>
    /\ text_queue' = AfterGet(text_queue)
    /\ StartLang(t, 1, Head(text_queue), NoDict, NoDict, <<>>)
    /\ UNCHANGED <<running, stopping, ttsVars, stVars, segVars, trConf, synVars, auxVars, translation_queue>>

\* translator.py lines 266-293: the provider call in flight returns `result`;
\* the chain goes on to the next provider that is called, or the entry is stored
ProviderReturn(t, result) ==
    /\ tr_pc[t] = "call"
    /\ LET lang  == target_languages[tr_lang[t]]
           p     == NextProvider(tr_provider[t] + 1, result)
           calls == Append(tr_calls[t], <<lang, Chain[tr_provider[t]], result>>)
       IN  /\ tr_calls' = [tr_calls EXCEPT ![t] = calls]
           /\ IF p # 0
              THEN /\ tr_provider' = [tr_provider EXCEPT ![t] = p]
                   /\ UNCHANGED <<tr_pc, translations, service_used>>
              ELSE /\ tr_pc' = [tr_pc EXCEPT ![t] = "sleep"]
                   /\ tr_provider' = [tr_provider EXCEPT ![t] = 0]
                   /\ translations' = [translations EXCEPT ![t] =
                          (lang :> EntryFor(tr_text[t], result)) @@ translations[t]]
                   /\ service_used' = [service_used EXCEPT ![t] =
                          (lang :> ServiceUsed(tr_provider[t], result)) @@ service_used[t]]
    /\ services_available' =
           FlagsAfterCall(services_available, Chain[tr_provider[t]], result)
    /\ UNCHANGED <<running, stopping, ttsVars, stVars, text_queue, segVars,
                   deepl_api_key, ms_translator_key, synVars, auxVars,
                   translation_queue, tr_text, tr_lang>>

\* translator.py lines 294-299: an exception escapes the try body while the
\* provider call is in flight
ProviderRaise(t) ==
    /\ tr_pc[t] = "call"
    /\ LET lang == target_languages[tr_lang[t]]
       IN  /\ tr_calls' = [tr_calls EXCEPT ![t] =
                  Append(tr_calls[t], <<lang, Chain[tr_provider[t]], Raised>>)]
           /\ translations' = [translations EXCEPT ![t] =
                  OnException(translations[t], lang, tr_text[t])]
           /\ service_used' = [service_used EXCEPT ![t] =
                  (lang :> "exception") @@ service_used[t]]
    /\ tr_pc' = [tr_pc EXCEPT ![t] = "sleep"]
    /\ tr_provider' = [tr_provider EXCEPT ![t] = 0]
    /\ services_available' =
           FlagsAfterCall(services_available, Chain[tr_provider[t]], Raised)
    /\ UNCHANGED <<running, stopping, ttsVars, stVars, text_queue, segVars,
                   deepl_api_key, ms_translator_key, synVars, auxVars,
                   translation_queue, tr_text, tr_lang>>

\* translator.py lines 299-301 and main.py lines 203-209: the sleep after a
\* language ends; the next language starts, or translate() returns and the
\* thread adds the source text as "zh" and queues the result
SleepReturn(t) ==
    /\ tr_pc[t] = "sleep"
    /\ IF tr_lang[t] < NumLangs
       THEN /\ StartLang(t, tr_lang[t] + 1, tr_text[t], translations[t],
                         service_used[t], tr_calls[t])
            /\ UNCHANGED <<translation_queue, set_log>>
       ELSE /\ translation_queue' =
                   Append(translation_queue, ("zh" :> tr_text[t]) @@ translations[t])
            /\ set_log' = Append(set_log, tr_text[t].id)
            /\ tr_pc' = [tr_pc EXCEPT ![t] = LoopHead]
            /\ tr_text' = [tr_text EXCEPT ![t] = None]
            /\ tr_lang' = [tr_lang EXCEPT ![t] = 0]
            /\ tr_provider' = [tr_provider EXCEPT ![t] = 0]
            /\ translations' = [translations EXCEPT ![t] = NoDict]
            /\ service_used' = [service_used EXCEPT ![t] = NoDict]
            /\ tr_calls' = [tr_calls EXCEPT ![t] = <<>>]
    /\ UNCHANGED <<running, stopping, ttsVars, stVars, text_queue, segVars, trConf, synVars,
                   capVars, cloneVars, stxVars, push_log, loop_errors>>

InitTrLocals ==
    /\ tr_text = [t \in Threads |-> None]
    /\ tr_lang = [t \in Threads |-> 0]
    /\ tr_provider = [t \in Threads |-> 0]
    /\ translations = [t \in Threads |-> NoDict]
    /\ service_used = [t \in Threads |-> NoDict]
    /\ tr_calls = [t \in Threads |-> <<>>]

\* Translator.__init__, lines 40-68: a service is available only if its key is
\* set and its start-up test passed; LibreTranslate always counts as available
InitTranslator ==
    /\ deepl_api_key \in BOOLEAN
    /\ ms_translator_key \in BOOLEAN
    /\ services_available \in
           { [deepl |-> d, microsoft |-> m, libre |-> TRUE] :
                 d \in (IF deepl_api_key THEN BOOLEAN ELSE {FALSE}),
                 m \in (IF ms_translator_key THEN BOOLEAN ELSE {FALSE}) }

(***************************************************************************)
(* LiveKitStreamer: streamer.py.                                           *)
(***************************************************************************)
\* an audio array: the utterance it renders and whether it holds samples
Audio(id) == [id |-> id, len |-> 1]
\* np.array([])
EmptyAudio == [id |-> 0, len |-> 0]
\* None passed as audio_data
NoAudio == [id |-> 0, len |-> -1]

\* iteration order of the dict the pipeline passes on: the target languages in
\* the order translate() inserted them, then "zh" (main.py line 206)
DictOrder == target_languages \o <<"zh">>

PushTests_AcceptEmpty(queues, lang, audio) ==
    /\ st_running
    /\ lang \in DOMAIN queues

\* lines 218-227: the three tests of push_audio; the call returns at the first
\* that fails
PushTests(queues, lang, audio) ==
    /\ st_running
    /\ lang \in DOMAIN queues
    /\ ~(audio = NoAudio \/ audio.len = 0)

\* line 230: self.audio_queues[lang].put(audio_data)
Put(queues, lang, audio) == [queues EXCEPT ![lang] = Append(@, audio)]

\* lines 210-230: push_audio
PushAudio(queues, lang, audio) ==
    IF PushTests(queues, lang, audio) THEN Put(queues, lang, audio) ELSE queues

RECURSIVE PushFrom_StopAtReject(_, _, _)
PushFrom_StopAtReject(queues, d, i) ==
    IF i > Len(DictOrder) THEN queues
    ELSE IF DictOrder[i] \notin DOMAIN d
         THEN PushFrom_StopAtReject(queues, d, i + 1)
    ELSE IF PushAudio(queues, DictOrder[i], d[DictOrder[i]]) = queues THEN queues
    ELSE PushFrom_StopAtReject(PushAudio(queues, DictOrder[i], d[DictOrder[i]]), d, i + 1)

\* lines 239-240: the loop of push_audio_multiple from position i of the dict on
RECURSIVE PushFrom(_, _, _)
PushFrom(queues, d, i) ==
    IF i > Len(DictOrder) THEN queues
    ELSE IF DictOrder[i] \notin DOMAIN d THEN PushFrom(queues, d, i + 1)
    ELSE PushFrom(PushAudio(queues, DictOrder[i], d[DictOrder[i]]), d, i + 1)

\* lines 232-240: push_audio_multiple
PushAudioMultiple(d) ==
    /\ audio_queues' = PushFrom(audio_queues, d, 1)
    /\ pushed' = d
    /\ push_count' = push_count + 1

\* lines 143-153 and 157-159: the streaming thread of language l takes an item;
\* it then sleeps 0.1 s after the (simulated) push, or 1 s after an exception
StreamTake(l, ok) ==
    /\ stream_pc[l] = "idle"
    /\ audio_queues[l] # <<>>
    /\ audio_queues' = [audio_queues EXCEPT ![l] = Tail(@)]
    /\ published' = [published EXCEPT ![l] = Append(@, Head(audio_queues[l]).id)]
    /\ stream_pc' = [stream_pc EXCEPT ![l] = IF ok THEN "pushing" ELSE "error"]
    /\ UNCHANGED <<running, stopping, text_queue, segVars, trConf, synVars, auxVars, trVars, ttsVars,
                   st_running, pushed, push_count>>

\* lines 140, 153, 159: the sleep ends and the loop tests self.running
StreamWake(l) ==
    /\ stream_pc[l] \in {"pushing", "error"}
    /\ stream_pc' = [stream_pc EXCEPT ![l] = IF st_running THEN "idle" ELSE "dead"]
    /\ UNCHANGED <<running, stopping, text_queue, segVars, trConf, synVars, auxVars, trVars, ttsVars,
                   st_running, audio_queues, pushed, push_count, published>>

Starts_IgnoreFailure(ok) == ~st_running

\* lines 163-170: start() goes on to start threads unless the streamer is
\* running already or the room could not be prepared
Starts(ok) == ~st_running /\ ok

\* lines 161-184: start(); `ok` is the outcome of _create_or_check_room
StreamerStartEffect(ok) ==
    IF ~Starts(ok)
    THEN UNCHANGED <<st_running, stream_pc>>
    ELSE /\ st_running' = TRUE
         /\ stream_pc' = [l \in TargetSet |-> "idle"]

\* the waits of the streamer, in tenths of a second: lines 143, 153, 159, 196
GET_TIMEOUT == 10
PUSH_SLEEP == 1
ERROR_SLEEP == 10

JOIN_TIMEOUT_Short == GET_TIMEOUT \div 2

JOIN_TIMEOUT == 20

\* lines 140-159: the longest a streaming thread at position pc takes to reach
\* its loop test once running is cleared
TimeToLoopTest(pc) ==
    CASE pc = "idle"    -> GET_TIMEOUT + PUSH_SLEEP
      [] pc = "pushing" -> PUSH_SLEEP
      [] pc = "error"   -> ERROR_SLEEP
      [] OTHER          -> 0

\* lines 194-196: thread.join(timeout=2.0) sees the thread end
LeavesWithinJoin(pc) == TimeToLoopTest(pc) < JOIN_TIMEOUT

\* lines 186-208: stop(); a streaming thread that reaches its loop test within
\* the join has left, then the queues are drained
StreamerStopEffect ==
    IF ~st_running
    THEN UNCHANGED <<st_running, stream_pc, audio_queues>>
    ELSE /\ st_running' = FALSE
         /\ stream_pc' = [l \in TargetSet |->
                              IF LeavesWithinJoin(stream_pc[l]) THEN "dead"
                              ELSE stream_pc[l]]
         /\ audio_queues' = [l \in TargetSet |-> <<>>]

\* lines 31-38: the streamer after construction
InitStreamer ==
    /\ st_running = FALSE
    /\ audio_queues = [l \in TargetSet |-> <<>>]
    /\ stream_pc = [l \in TargetSet |-> "dead"]
    /\ pushed = NoDict
    /\ push_count = 0
    /\ published = [l \in TargetSet |-> <<>>]

(***************************************************************************)
(* Calls made directly on a LiveKitStreamer: start(), stop() and           *)
(* push_audio from another thread, which tests and then puts.              *)
(***************************************************************************)
\* no push_audio call is between its tests and its put; none was made
NoCall == [lang |-> "none", audio |-> NoAudio]
NoPush == [lang |-> "none", audio |-> NoAudio, accepted |-> FALSE, after |-> 0]

stOthers == <<running, stopping, text_queue, segVars, trConf, synVars, capVars,
              cloneVars, logVars, loop_errors, trVars, ttsVars>>

\* the streaming threads of language l that are alive
Alive(pcs, extra, l) == (IF pcs[l] # "dead" THEN 1 ELSE 0) + extra[l]

\* lines 161-184: start(). Line 181 puts the new thread in the place of
\* whatever streaming_threads held for the language
StStart(ok) ==
    /\ Len(st_calls) < MaxCalls
    /\ StreamerStartEffect(ok)
    /\ st_extra' = IF Starts(ok)
                   THEN [l \in TargetSet |-> Alive(stream_pc, st_extra, l)]
                   ELSE st_extra
    /\ st_calls' = Append(st_calls, <<"start", st_running, ok>>)
    /\ UNCHANGED <<audio_queues, pushed, push_count, published, push_call, last_push,
                   stOthers>>

\* lines 186-208: stop()
StStop ==
    /\ Len(st_calls) < MaxCalls
    /\ StreamerStopEffect
    /\ st_calls' = Append(st_calls, <<"stop", st_running, TRUE>>)
    /\ UNCHANGED <<pushed, push_count, published, push_call, last_push, st_extra,
                   stOthers>>

\* lines 218-227: push_audio(lang, audio) makes its tests
PushCheck(lang, audio) ==
    /\ push_call = NoCall
    /\ push_count < MaxPushes
    /\ push_count' = push_count + 1
    /\ last_push' = [lang |-> lang, audio |-> audio,
                     accepted |-> PushTests(audio_queues, lang, audio),
                     after |-> Len(st_calls)]
    /\ push_call' = IF PushTests(audio_queues, lang, audio)
                    THEN [lang |-> lang, audio |-> audio]
                    ELSE NoCall
    /\ UNCHANGED <<st_running, audio_queues, stream_pc, pushed, published, st_calls,
                   st_extra, stOthers>>

\* line 230: the call that passed the tests puts its audio
PushPut ==
    /\ push_call # NoCall
    /\ audio_queues' = Put(audio_queues, push_call.lang, push_call.audio)
    /\ push_call' = NoCall
    /\ UNCHANGED <<st_running, stream_pc, pushed, push_count, published, last_push,
                   st_calls, st_extra, stOthers>>

(***************************************************************************)
(* The TTS thread: main.py _process_tts, tts_engine.py synthesize_multiple.*)
(***************************************************************************)
\* tts_engine.py lines 321-322: the next language from position i on whose text
\* is non-empty; 0 if none
RECURSIVE NextText(_, _)
NextText(texts, i) ==
    IF i > Len(DictOrder) THEN 0
    ELSE IF DictOrder[i] \in DOMAIN texts /\ Truthy(texts[DictOrder[i]]) THEN i
    ELSE NextText(texts, i + 1)

\* what synthesize may return for a text: np.array([]) on failure, or samples
SynthOutcomes(text) == {EmptyAudio, Audio(text.id)}

\* the TTS thread goes on with the language at position i of `texts`; at the end
\* of the dict synthesize_multiple returns and the results are pushed
TtsAdvance(t, texts, results, i) ==
    IF i # 0
    THEN /\ tts_pc' = [tts_pc EXCEPT ![t] = "synth"]
         /\ tts_texts' = [tts_texts EXCEPT ![t] = texts]
         /\ tts_idx' = [tts_idx EXCEPT ![t] = i]
         /\ audio_data_dict' = [audio_data_dict EXCEPT ![t] = results]
         /\ UNCHANGED <<audio_queues, pushed, push_count, push_log>>
    ELSE /\ PushAudioMultiple(results)
         /\ push_log' = Append(push_log, texts["zh"].id)
         /\ tts_pc' = [tts_pc EXCEPT ![t] = LoopHead]
         /\ tts_texts' = [tts_texts EXCEPT ![t] = NoDict]
         /\ tts_idx' = [tts_idx EXCEPT ![t] = 0]
         /\ audio_data_dict' = [audio_data_dict EXCEPT ![t] = NoDict]

\* main.py lines 225-229: a translation set is taken from translation_queue
TtsGet(t) ==
    /\ tts_pc[t] = "idle"
    /\ translation_queue # <<>>
    /\ translation_queue' = AfterGet(translation_queue)
    /\ TtsAdvance(t, Head(translation_queue), NoDict,
                  NextText(Head(translation_queue), 1))
    /\ UNCHANGED <<running, stopping, text_queue, segVars, trConf, synVars, capVars,
                   cloneVars, stxVars, set_log, loop_errors, tr_pc, tr_text,
                   tr_lang, tr_provider, translations, service_used, tr_calls,
                   st_running, stream_pc, published>>

\* main.py lines 234-237: translation_queue.get times out
TtsTimeout(t) ==
    /\ tts_pc[t] = "idle"
    /\ translation_queue = <<>>
    /\ tts_pc' = [tts_pc EXCEPT ![t] = LoopHead]
    /\ UNCHANGED <<running, stopping, text_queue, segVars, trConf, synVars, auxVars, trVars,
                   tts_texts, tts_idx, audio_data_dict, stVars>>

\* tts_engine.py lines 321-326 and main.py line 232: synthesize returns `audio`
\* for the language in hand
SynthReturn(t, audio) ==
    /\ tts_pc[t] = "synth"
    /\ LET lang == DictOrder[tts_idx[t]]
       IN  TtsAdvance(t, tts_texts[t], (lang :> audio) @@ audio_data_dict[t],
                      NextText(tts_texts[t], tts_idx[t] + 1))
    /\ UNCHANGED <<running, stopping, text_queue, segVars, trConf, synVars, capVars,
                   cloneVars, stxVars, set_log, loop_errors, trVars,
                   st_running, stream_pc, published>>

InitTtsLocals ==
    /\ tts_texts = [t \in Threads |-> NoDict]
    /\ tts_idx = [t \in Threads |-> 0]
    /\ audio_data_dict = [t \in Threads |-> NoDict]

(***************************************************************************)
(* TTSEngine.synthesize and synthesize_multiple, backend by backend:       *)
(* tts_engine.py.                                                          *)
(***************************************************************************)
\* a non-empty sample array for utterance `id`, made by backend `by`
Wave(id, by) == [id |-> id, len |-> 1, by |-> by]
\* np.array([])
NoWave == [id |-> 0, len |-> 0, by |-> "empty"]
\* None returned in place of an array
NoneWave == [id |-> 0, len |-> -1, by |-> "None"]
\* an exception escaping a backend call
RaisedWave == [id |-> 0, len |-> -2, by |-> "raised"]

\* lines 296-306: the generic backend the engine is configured with
GenericBackend ==
    IF engine_type = "google" /\ google_client THEN "google" ELSE "edge"

FirstBackend_NoClone(emb) == GenericBackend

\* lines 285-296: the backend synthesize turns to first
FirstBackend(emb) == IF emb THEN "clone" ELSE GenericBackend

\* lines 224-268: synthesize_with_voice_clone catches every exception and
\* returns None, or returns the int16 samples of a non-empty waveform
CloneOutcomes(text) == {NoneWave, Wave(text.id, "clone")}

\* lines 116-178: an exception escapes _synthesize_google_tts from the import at
\* line 130 only; inside the try it answers np.array([]) or the samples
GoogleOutcomes(text) == {RaisedWave, NoWave, Wave(text.id, "google")}

\* lines 74-114: _synthesize_edge_tts answers np.array([]) or the samples
EdgeOutcomes(text) == {NoWave, Wave(text.id, "edge")}

CloneAccepted_Always(samples) == TRUE

\* lines 289-293: len(samples) > 0; len(None) raises TypeError, which the
\* except clause of line 292 swallows
CloneAccepted(samples) == samples # NoneWave /\ samples.len > 0

NextAfter_StopOnFailure(texts, i, audio) ==
    IF audio.len <= 0 THEN 0 ELSE NextText(texts, i + 1)

\* lines 321-324: the loop of synthesize_multiple goes on after the language at
\* position i, whatever its audio is
NextAfter(texts, i, audio) == NextText(texts, i + 1)

\* lines 321-326: synthesize_multiple turns to the language at position i, or
\* returns (i = 0)
SynEnter(results, i) ==
    /\ syn_results' = results
    /\ syn_idx' = i
    /\ syn_pc' = IF i = 0 THEN "done" ELSE FirstBackend(syn_emb)

synOthers == <<running, stopping, text_queue, segVars, trConf, trVars, ttsVars, stVars,
               auxVars, engine_type, google_client>>

\* lines 308-322: synthesize_multiple(texts, speaker_embedding) is called
SynthesizeMultiple(texts, emb) ==
    /\ syn_pc = "idle"
    /\ syn_texts' = texts
    /\ syn_emb' = emb
    /\ syn_calls' = <<>>
    /\ syn_results' = NoDict
    /\ UNCHANGED temp_files
    /\ syn_idx' = NextText(texts, 1)
    /\ syn_pc' = IF NextText(texts, 1) = 0 THEN "done" ELSE FirstBackend(emb)
    /\ UNCHANGED synOthers

\* the call log after backend b answered `out` for the language in hand
Logged(b, out) ==
    Append(syn_calls, [lang |-> DictOrder[syn_idx], backend |-> b, out |-> out])

\* lines 287-293: synthesize_with_voice_clone returns `samples`
CloneReturn(samples) ==
    /\ syn_pc = "clone"
    /\ syn_calls' = Logged("clone", samples)
    /\ UNCHANGED temp_files
    /\ IF CloneAccepted(samples)
       THEN SynEnter((DictOrder[syn_idx] :> samples) @@ syn_results,
                     NextAfter(syn_texts, syn_idx, samples))
       ELSE /\ syn_pc' = GenericBackend
            /\ UNCHANGED <<syn_results, syn_idx>>
    /\ UNCHANGED <<synOthers, syn_texts, syn_emb>>

\* lines 91-114 and 159-178: the temp files after a backend call for `lang`
\* that answered `out`; `written` tells whether the call got as far as writing
\* its file. The file is removed on the success path only (lines 107-108,
\* 172-173).
TempFilesAfter(backend, lang, out, written) ==
    IF out.len > 0 THEN temp_files \ {<<backend, lang>>}
    ELSE IF written THEN temp_files \cup {<<backend, lang>>}
    ELSE temp_files

\* lines 297-302: _synthesize_google_tts returns `out` or raises
GoogleReturn(out, written) ==
    /\ syn_pc = "google"
    /\ out.len > 0 => written
    /\ out = RaisedWave => ~written
    /\ syn_calls' = Logged("google", out)
    /\ temp_files' = TempFilesAfter("google", DictOrder[syn_idx], out, written)
    /\ IF out = RaisedWave
       THEN /\ syn_pc' = "edge"
            /\ UNCHANGED <<syn_results, syn_idx>>
       ELSE SynEnter((DictOrder[syn_idx] :> out) @@ syn_results,
                     NextAfter(syn_texts, syn_idx, out))
    /\ UNCHANGED <<synOthers, syn_texts, syn_emb>>

\* lines 302, 306: _synthesize_edge_tts returns `out`
EdgeReturn(out, written) ==
    /\ syn_pc = "edge"
    /\ out.len > 0 => written
    /\ syn_calls' = Logged("edge", out)
    /\ temp_files' = TempFilesAfter("edge", DictOrder[syn_idx], out, written)
    /\ SynEnter((DictOrder[syn_idx] :> out) @@ syn_results,
                NextAfter(syn_texts, syn_idx, out))
    /\ UNCHANGED <<synOthers, syn_texts, syn_emb>>

\* no direct call of the engine is under way
InitSynIdle ==
    /\ syn_pc = "idle"
    /\ syn_texts = NoDict
    /\ syn_emb = FALSE
    /\ syn_idx = 0
    /\ syn_results = NoDict
    /\ syn_calls = <<>>
    /\ temp_files = {}

\* lines 46-72: the engine a LiveTranslator constructs; the pipeline's TTS thread
\* is modelled by what synthesize answers, whatever the backend
InitEngine ==
    /\ engine_type = "edge-tts"
    /\ google_client = FALSE
    /\ InitSynIdle

(***************************************************************************)
(* State of the components the pipeline specifications leave untouched.    *)
(***************************************************************************)
\* audio_input.py lines 27-41: the capture manager before initialize()
InitCaptureIdle ==
    /\ cap_running = FALSE
    /\ cap_pc = "new"
    /\ cap_source = "device"
    /\ audio_queue = 0
    /\ pending_puts = 0
    /\ cap_error = "none"
    /\ produced = 0

\* a status query has not been made
NoStatus == [by |-> "none", speaker |-> 0, status |-> "none"]

Tasks == 1..MaxTasks

\* a coroutine that has not been called
NoTask == [kind |-> "none", pc |-> "none", attempt |-> "none", result |-> "none"]

\* voice_clone_module.py lines 33-41: the flags are clear, the lock is free and
\* __init__ has scheduled _initialize_models as a task
InitTasks ==
    /\ models_loaded = FALSE
    /\ loading_in_progress = FALSE
    /\ tasks = [k \in Tasks |-> IF k = 1
                                THEN [NoTask EXCEPT !.kind = "_initialize_models",
                                                    !.pc = "start"]
                                ELSE NoTask]
    /\ loop_owner = 0
    /\ load_lock = 0

\* voice_clone_module.py lines 30-44, with no speaker mapping
InitCloneIdle ==
    /\ active_speakers = {}
    /\ InitTasks
    /\ set_calls = <<>>
    /\ status_out = NoStatus

Stages == {"seg", "tr", "tts"}

InitLogs ==
    /\ set_log = <<>>
    /\ push_log = <<>>

InitStreamerCalls ==
    /\ push_call = NoCall
    /\ last_push = NoPush
    /\ st_calls = <<>>
    /\ st_extra = [l \in TargetSet |-> 0]

InitAux ==
    /\ InitCaptureIdle
    /\ InitCloneIdle
    /\ InitStreamerCalls
    /\ InitLogs
    /\ loop_errors = [g \in Stages |-> 0]

(***************************************************************************)
(* AudioInputManager: audio_input.py.  The queue and the submitted puts    *)
(* are counted, cap_pc is the position of the input thread ("new" before   *)
(* initialize()), cap_error the kind of the last failure it logged and     *)
(* produced the chunks it submitted since that failure.                    *)
(***************************************************************************)
\* line 28: asyncio.Queue(maxsize=100)
AUDIO_QUEUE_MAXSIZE == 100

\* the model stops submitting once the waiting chunks exceed the queue bound
MaxWaiting == AUDIO_QUEUE_MAXSIZE + 1

capOthers == <<running, stopping, text_queue, segVars, trConf, synVars, cloneVars, stxVars, logVars,
               loop_errors, trVars, ttsVars, stVars>>

\* lines 138, 176: the loop test of the input thread
CapLoopHead(loop) == IF cap_running THEN loop ELSE "dead"

\* lines 149-152, 179-182: run_coroutine_threadsafe(audio_queue.put(chunk), loop)
\* schedules the put and returns; the thread does not wait for the future
Submit ==
    /\ pending_puts' = pending_puts + 1
    /\ produced' = IF produced < MaxProduced THEN produced + 1 ELSE produced

\* lines 43-68: initialize() sets running and starts the input thread, on the
\* simulated source if USE_MOCK_INPUT is set
CapInitialize(use_mock_input) ==
    /\ cap_pc = "new"
    /\ cap_running' = TRUE
    /\ cap_pc' = IF use_mock_input THEN "mock" ELSE "opening"
    /\ cap_source' = IF use_mock_input THEN "mock" ELSE "device"
    /\ UNCHANGED <<audio_queue, pending_puts, cap_error, produced, capOthers>>

\* lines 162-167: an exception of the outer try switches to the simulated source
SourceAfterOpenFailure == "mock"

\* lines 120-138 and 162-167: PyAudio is imported and the stream opened; a
\* failure is logged and _mock_audio_input_thread() is called in the same thread
CapOpen(ok) ==
    /\ cap_pc = "opening"
    /\ IF ok
       THEN /\ cap_pc' = CapLoopHead("reading")
            /\ UNCHANGED <<cap_source, cap_error, produced>>
       ELSE /\ cap_source' = SourceAfterOpenFailure
            /\ cap_pc' = CapLoopHead(IF SourceAfterOpenFailure = "mock"
                                     THEN "mock" ELSE "reading")
            /\ cap_error' = "open"
            /\ produced' = 0
    /\ UNCHANGED <<cap_running, audio_queue, pending_puts, capOthers>>

\* lines 139-155: one turn of the device loop. stream.read returns a chunk or
\* raises; asyncio.get_event_loop() in this thread returns a loop or raises,
\* as the interpreter's event loop policy decides. Either exception is logged
\* by the inner handler, which sleeps 0.1 s and goes back to the loop test.
CapRead(ok, loop_ok) ==
    /\ cap_pc = "reading"
    /\ IF ok /\ loop_ok
       THEN /\ pending_puts + audio_queue < MaxWaiting
            /\ Submit
            /\ UNCHANGED cap_error
       ELSE /\ cap_error' = IF ok THEN "loop" ELSE "read"
            /\ produced' = IF ok THEN produced ELSE 0
            /\ UNCHANGED pending_puts
    /\ cap_pc' = CapLoopHead("reading")
    /\ UNCHANGED <<cap_running, cap_source, audio_queue, capOthers>>

\* lines 176-189: one turn of the simulated source's loop
CapMock(loop_ok) ==
    /\ cap_pc = "mock"
    /\ IF loop_ok
       THEN /\ pending_puts + audio_queue < MaxWaiting
            /\ Submit
            /\ UNCHANGED cap_error
       ELSE /\ cap_error' = "loop"
            /\ UNCHANGED <<pending_puts, produced>>
    /\ cap_pc' = CapLoopHead("mock")
    /\ UNCHANGED <<cap_running, cap_source, audio_queue, capOthers>>

\* line 28 and asyncio.Queue.put: the event loop runs a submitted put, which
\* inserts its chunk if the queue is not full and waits otherwise
LoopInsert ==
    /\ pending_puts > 0
    /\ audio_queue < AUDIO_QUEUE_MAXSIZE
    /\ audio_queue' = audio_queue + 1
    /\ pending_puts' = pending_puts - 1
    /\ UNCHANGED <<cap_running, cap_pc, cap_source, cap_error, produced, capOthers>>

\* lines 191-201: get_audio_chunk takes a queued chunk
CapGet ==
    /\ cap_pc # "new"
    /\ audio_queue > 0
    /\ audio_queue' = audio_queue - 1
    /\ UNCHANGED <<cap_running, cap_pc, cap_source, pending_puts, cap_error,
                   produced, capOthers>>

\* lines 70-83: cleanup() clears running, waits up to 2 s for the thread and
\* empties the queue; puts still pending stay scheduled
CapCleanup ==
    /\ cap_pc # "new"
    /\ cap_running
    /\ cap_running' = FALSE
    /\ audio_queue' = 0
    /\ UNCHANGED <<cap_pc, cap_source, pending_puts, cap_error, produced, capOthers>>

(***************************************************************************)
(* VoiceCloneManager (voice_clone_module.py) and the fallback functions of *)
(* voice_clone.py.  active_speakers, a dict, is the set of its (language,  *)
(* speaker) items.                                                         *)
(***************************************************************************)
Speakers == 1..MaxSpeakers
CloneLangs == TargetSet

cloneOthers == <<running, stopping, text_queue, segVars, trConf, synVars, capVars, stxVars, logVars,
                 loop_errors, trVars, ttsVars, stVars>>

\* the event loop is running coroutine k
Runs(k) == loop_owner = k

\* no coroutine is being run: the loop can take one up, or its thread is in
\* a plain call
LoopFree == loop_owner = 0

\* a dict has one value per key
IsDict(d) == \A p, q \in d : p[1] = q[1] => p = q

\* dict.get
DictGet(d, k) == IF \E p \in d : p[1] = k THEN (CHOOSE p \in d : p[1] = k)[2] ELSE 0

DictAssign_Add(d, k, v) == d \cup {<<k, v>>}

\* line 181: d[k] = v puts v in the place of whatever k had
DictAssign(d, k, v) == {p \in d : p[1] # k} \cup {<<k, v>>}

\* lines 179-183: set_active_speaker; _save_speaker_mapping writes a local file
\* that nothing reads back, and catches its own failures
SetActiveSpeaker(lang_code, speaker_id) ==
    /\ Len(set_calls) < MaxSets
    /\ LoopFree
    /\ active_speakers' = DictAssign(active_speakers, lang_code, speaker_id)
    /\ set_calls' = Append(set_calls,
                           <<lang_code, speaker_id, DictGet(active_speakers, lang_code)>>)
    /\ UNCHANGED <<models_loaded, loading_in_progress, status_out, taskVars, cloneOthers>>

\* lines 46, 221, 266: the coroutines that load the models. The event loop
\* runs one coroutine at a time, from the point where it took it up to the
\* next point where it suspends or returns
Callers == {"process_voice_sample", "synthesize"}

BodySuspends_Awaits == TRUE

\* lines 57-107: the loading body downloads, imports and loads in plain calls;
\* there is no await in it
BodySuspends == FALSE

FlagAfterLoad_OnSuccessOnly(ok) == ~ok

\* lines 113-114: the finally clause clears loading_in_progress
FlagAfterLoad(ok) == FALSE

\* _initialize_models returns: its own task ends; a caller goes on at line 239
\* or 289
Returned(t) ==
    IF t.kind = "_initialize_models" THEN [t EXCEPT !.pc = "done"]
    ELSE [t EXCEPT !.pc = "after"]

OwnerAfterReturn(k) == IF tasks[k].kind = "_initialize_models" THEN 0 ELSE k

\* lines 221, 266: process_voice_sample or synthesize is called
Call(k, kind) ==
    /\ tasks[k].kind = "none"
    /\ tasks' = [tasks EXCEPT ![k] = [NoTask EXCEPT !.kind = kind, !.pc = "start"]]
    /\ UNCHANGED <<active_speakers, models_loaded, loading_in_progress, set_calls,
                   status_out, loop_owner, load_lock, cloneOthers>>

\* the loop takes the coroutine up. Lines 232-237, 279-287: a caller whose
\* sample, or embedding, exists tests models_loaded and calls
\* _initialize_models when it is clear
TaskBegin(k) ==
    /\ tasks[k].pc = "start"
    /\ LoopFree
    /\ tasks' = [tasks EXCEPT ![k].pc =
                    IF tasks[k].kind \in Callers /\ models_loaded THEN "embed" ELSE "check"]
    /\ loop_owner' = k
    /\ UNCHANGED <<active_speakers, models_loaded, loading_in_progress, set_calls,
                   status_out, load_lock, cloneOthers>>

\* lines 48-49: nothing to do when the models are loaded or being loaded
CheckFlags(k) ==
    /\ tasks[k].pc = "check"
    /\ Runs(k)
    /\ IF models_loaded \/ loading_in_progress
       THEN /\ tasks' = [tasks EXCEPT ![k] = Returned(tasks[k])]
            /\ loop_owner' = OwnerAfterReturn(k)
       ELSE /\ tasks' = [tasks EXCEPT ![k].pc = "acquire"]
            /\ UNCHANGED loop_owner
    /\ UNCHANGED <<active_speakers, models_loaded, loading_in_progress, set_calls,
                   status_out, load_lock, cloneOthers>>

\* line 51: async with self.load_lock takes a free lock without suspending,
\* and suspends until the lock is released otherwise
AcquireLock(k) ==
    /\ tasks[k].pc = "acquire"
    /\ Runs(k) \/ (LoopFree /\ load_lock = 0)
    /\ IF load_lock = 0
       THEN /\ load_lock' = k
            /\ tasks' = [tasks EXCEPT ![k].pc = "locked"]
            /\ loop_owner' = k
       ELSE /\ loop_owner' = 0
            /\ UNCHANGED <<tasks, load_lock>>
    /\ UNCHANGED <<active_speakers, models_loaded, loading_in_progress, set_calls,
                   status_out, cloneOthers>>

\* lines 52-55: the second test of models_loaded, then the flag is set and the
\* body begins
EnterBody(k) ==
    /\ tasks[k].pc = "locked"
    /\ Runs(k)
    /\ IF models_loaded
       THEN /\ tasks' = [tasks EXCEPT ![k] = Returned(tasks[k])]
            /\ loop_owner' = OwnerAfterReturn(k)
            /\ load_lock' = 0
            /\ UNCHANGED loading_in_progress
       ELSE /\ loading_in_progress' = TRUE
            /\ tasks' = [tasks EXCEPT ![k].pc = "loading"]
            /\ loop_owner' = IF BodySuspends THEN 0 ELSE k
            /\ UNCHANGED load_lock
    /\ UNCHANGED <<active_speakers, models_loaded, set_calls, status_out, cloneOthers>>

\* lines 57-115: the models are loaded and models_loaded is set, or loading
\* failed and the exception is logged; the finally clause clears the flag and
\* the lock is released
LoadBody(k, ok) ==
    /\ tasks[k].pc = "loading"
    /\ Runs(k) \/ LoopFree
    /\ models_loaded' = (models_loaded \/ ok)
    /\ loading_in_progress' = FlagAfterLoad(ok)
    /\ load_lock' = 0
    /\ tasks' = [tasks EXCEPT ![k] =
                    Returned([tasks[k] EXCEPT !.attempt = IF ok THEN "ok" ELSE "failed"])]
    /\ loop_owner' = OwnerAfterReturn(k)
    /\ UNCHANGED <<active_speakers, set_calls, status_out, cloneOthers>>

\* lines 239-241, 289-291: after _initialize_models the caller gives up when
\* models_loaded is still clear
AfterInitialize(k) ==
    /\ tasks[k].pc = "after"
    /\ Runs(k)
    /\ IF models_loaded
       THEN /\ tasks' = [tasks EXCEPT ![k].pc = "embed"]
            /\ UNCHANGED loop_owner
       ELSE /\ tasks' = [tasks EXCEPT ![k].pc = "done", ![k].result = "not_loaded"]
            /\ loop_owner' = 0
    /\ UNCHANGED <<active_speakers, models_loaded, loading_in_progress, set_calls,
                   status_out, load_lock, cloneOthers>>

\* lines 243-264, 293-310: the embedding is extracted, or the speech
\* synthesised, and the call returns its outcome
Embed(k, ok) ==
    /\ tasks[k].pc = "embed"
    /\ Runs(k)
    /\ tasks' = [tasks EXCEPT ![k].pc = "done",
                              ![k].result = IF ok THEN "ok" ELSE "failed"]
    /\ loop_owner' = 0
    /\ UNCHANGED <<active_speakers, models_loaded, loading_in_progress, set_calls,
                   status_out, load_lock, cloneOthers>>

\* the statuses the interface of the profile store names
StatusRange == {"pending", "ready", "failed", "not_found"}

\* lines 355-389: the status clone_status reports, given whether the embedding
\* and the sample were found (a failed download counts as not found, lines
\* 199-201 and 217-219), whether models are loading, and whether processing the
\* sample succeeded
StatusOf(embedding, sample, loading, success) ==
    IF embedding THEN "ready"
    ELSE IF sample
         THEN IF loading THEN "pending"
              ELSE IF success THEN "ready" ELSE "failed"
    ELSE "not_found"

\* lines 345-389 and 221-264: clone_status(speaker_id). If it comes to process
\* the sample and the models are not loaded, process_voice_sample loads them
\* first (load_ok) and gives up if that fails; embed_ok is the outcome of the
\* embedding itself
CloneStatus(speaker_id, embedding, sample, load_ok, embed_ok) ==
    LET processes == ~embedding /\ sample /\ ~loading_in_progress
        loaded    == IF processes /\ ~models_loaded THEN load_ok ELSE models_loaded
    IN  /\ LoopFree
        /\ load_lock = 0
        /\ models_loaded' = loaded
        /\ status_out' = [by |-> "clone_status", speaker |-> speaker_id,
                          status |-> StatusOf(embedding, sample, loading_in_progress,
                                              loaded /\ embed_ok)]
        /\ UNCHANGED <<active_speakers, loading_in_progress, set_calls, taskVars,
                       cloneOthers>>

\* voice_clone.py lines 9-18: clone_modules could not be imported, and
\* get_processing_status is the fallback the module defines
GetProcessingStatus(user_id) ==
    /\ status_out' = [by |-> "get_processing_status", speaker |-> user_id,
                      status |-> "error"]
    /\ UNCHANGED <<active_speakers, models_loaded, loading_in_progress, set_calls,
                   taskVars, cloneOthers>>

(***************************************************************************)
(* LiveTranslator.start and stop, and the loops' exits: main.py.           *)
(***************************************************************************)
\* main.py lines 199, 211-213: text_queue.get times out
TranslateTimeout(t) ==
    /\ tr_pc[t] = "idle"
    /\ text_queue = <<>>
    /\ tr_pc' = [tr_pc EXCEPT ![t] = LoopHead]
    /\ UNCHANGED <<running, stopping, text_queue, segVars, trConf, synVars, auxVars, translation_queue,
                   tr_text, tr_lang, tr_provider, translations, service_used,
                   tr_calls, ttsVars, stVars>>

\* the thread object a start() creates for a stage: the first unused one
FreeSlot(pc) == CHOOSE t \in Threads : pc[t] = "dead" /\ \A u \in 1..(t - 1) : pc[u] # "dead"

\* lines 246-276: start()
Start(room_ok) ==
    /\ ~running
    /\ ~stopping
    /\ \E t \in Threads : seg_pc[t] = "dead"
    /\ \E t \in Threads : tr_pc[t] = "dead"
    /\ \E t \in Threads : tts_pc[t] = "dead"
    /\ running' = TRUE
    /\ StreamerStartEffect(room_ok)
    /\ seg_pc' = [seg_pc EXCEPT ![FreeSlot(seg_pc)] = "idle"]
    /\ audio_buffer' = [audio_buffer EXCEPT ![FreeSlot(seg_pc)] = EmptyBuffer]
    /\ last_transcription_time' =
           [last_transcription_time EXCEPT ![FreeSlot(seg_pc)] = now]
    /\ tr_pc' = [tr_pc EXCEPT ![FreeSlot(tr_pc)] = "idle"]
    /\ tts_pc' = [tts_pc EXCEPT ![FreeSlot(tts_pc)] = "idle"]
    /\ UNCHANGED <<stopping, text_queue, now, current_time, buffer_seconds,
                   time_since_last, audio_data, emitted, recog_log, recog_result,
                   trConf, synVars, auxVars,
                   translation_queue, tr_text, tr_lang, tr_provider, translations,
                   service_used, tr_calls, tts_texts, tts_idx, audio_data_dict,
                   audio_queues, pushed, push_count, published>>

\* lines 278-283: stop() clears the signal and starts joining
StopBegin ==
    /\ running
    /\ ~stopping
    /\ running' = FALSE
    /\ stopping' = TRUE
    /\ UNCHANGED <<text_queue, segVars, trConf, synVars, auxVars, trVars, ttsVars, stVars>>

\* lines 285-307: the joins are over. A thread that was waiting on its queue
\* (timeouts of 0.1 s and 1 s) has left its loop within the 2 s join; a thread
\* inside an external call may outlive the join. Then the streamer is stopped.
StopEnd ==
    /\ stopping
    /\ \A t \in Threads : seg_pc[t] # "idle" /\ tr_pc[t] # "idle" /\ tts_pc[t] # "idle"
    /\ stopping' = FALSE
    /\ StreamerStopEffect
    /\ UNCHANGED <<running, text_queue, segVars, trConf, synVars, auxVars, trVars, ttsVars,
                   pushed, push_count, published>>

(***************************************************************************)
(* Exceptions caught by the stage loops: main.py.                          *)
(***************************************************************************)
AfterException_Exit == "dead"

\* lines 155-157, 214-216, 238-240: the except clause of a stage loop logs the
\* exception and sleeps for a second inside the loop
AfterException == "error"

Caught(g) == [loop_errors EXCEPT ![g] = @ + 1]

\* lines 112-157: an exception other than queue.Empty is raised while thread s
\* fetches or handles a chunk; the locals assigned so far stay as they are
SegRaise(s) ==
    /\ seg_pc[s] = "idle"
    /\ loop_errors["seg"] < MaxErrors
    /\ seg_pc' = [seg_pc EXCEPT ![s] = AfterException]
    /\ loop_errors' = Caught("seg")
    /\ UNCHANGED <<running, stopping, text_queue, now, audio_buffer,
                   last_transcription_time, current_time, buffer_seconds,
                   time_since_last, audio_data, emitted, recog_log, recog_result,
                   trConf, synVars, capVars, cloneVars, stxVars, logVars, trVars, ttsVars, stVars>>

\* lines 155-157: the sleep is over
SegWake(s) ==
    /\ seg_pc[s] = "error"
    /\ seg_pc' = [seg_pc EXCEPT ![s] = LoopHead]
    /\ UNCHANGED <<running, stopping, text_queue, now, audio_buffer,
                   last_transcription_time, current_time, buffer_seconds,
                   time_since_last, audio_data, emitted, recog_log, recog_result,
                   trConf, synVars, auxVars, trVars, ttsVars, stVars>>

\* lines 199-216: the text is taken and an exception is raised while it is
\* handled outside translate()'s own handlers
TrRaise(t) ==
    /\ tr_pc[t] = "idle"
    /\ text_queue # <<>>
    /\ loop_errors["tr"] < MaxErrors
    /\ text_queue' = AfterGet(text_queue)
    /\ tr_pc' = [tr_pc EXCEPT ![t] = AfterException]
    /\ loop_errors' = Caught("tr")
    /\ UNCHANGED <<running, stopping, segVars, trConf, synVars, capVars, cloneVars, stxVars, logVars,
                   translation_queue, tr_text, tr_lang, tr_provider, translations,
                   service_used, tr_calls, ttsVars, stVars>>

\* lines 214-216: the sleep is over
TrWake(t) ==
    /\ tr_pc[t] = "error"
    /\ tr_pc' = [tr_pc EXCEPT ![t] = LoopHead]
    /\ UNCHANGED <<running, stopping, text_queue, segVars, trConf, synVars, auxVars,
                   translation_queue, tr_text, tr_lang, tr_provider, translations,
                   service_used, tr_calls, ttsVars, stVars>>

\* lines 225-240: the translation set is taken and an exception is raised while
\* it is synthesized or pushed
TtsRaise(t) ==
    /\ tts_pc[t] = "idle"
    /\ translation_queue # <<>>
    /\ loop_errors["tts"] < MaxErrors
    /\ translation_queue' = AfterGet(translation_queue)
    /\ tts_pc' = [tts_pc EXCEPT ![t] = AfterException]
    /\ loop_errors' = Caught("tts")
    /\ UNCHANGED <<running, stopping, text_queue, segVars, trConf, synVars, capVars,
                   cloneVars, stxVars, logVars, tr_pc, tr_text, tr_lang, tr_provider, translations,
                   service_used, tr_calls, tts_texts, tts_idx, audio_data_dict, stVars>>

\* lines 238-240: the sleep is over
TtsWake(t) ==
    /\ tts_pc[t] = "error"
    /\ tts_pc' = [tts_pc EXCEPT ![t] = LoopHead]
    /\ UNCHANGED <<running, stopping, text_queue, segVars, trConf, synVars, auxVars,
                   trVars, tts_texts, tts_idx, audio_data_dict, stVars>>

(***************************************************************************)
(* Specification of the translator: the translation thread of a running    *)
(* pipeline with one recognized text waiting, every provider outcome.      *)
(***************************************************************************)
InitTr ==
    /\ running = TRUE
    /\ text_queue = <<Str(1, "zh")>>
    /\ seg_pc = [s \in Threads |-> "dead"]
    /\ InitSegLocals
    /\ InitTranslator
    /\ translation_queue = <<>>
    /\ tr_pc = [t \in Threads |-> IF t = 1 THEN "idle" ELSE "dead"]
    /\ InitTrLocals
    /\ stopping = FALSE
    /\ tts_pc = [t \in Threads |-> "dead"]
    /\ InitTtsLocals
    /\ InitEngine
    /\ InitStreamer
    /\ InitAux

NextTr ==
    \/ \E t \in Threads : TranslateGet(t)
    \/ \E t \in Threads :
           /\ tr_pc[t] = "call"
           /\ \E r \in ProviderOutcomes(tr_text[t], Chain[tr_provider[t]]) :
                  ProviderReturn(t, r)
    \/ \E t \in Threads : ProviderRaise(t)
    \/ \E t \in Threads : SleepReturn(t)

SpecTr == InitTr /\ [][NextTr]_vars

(***************************************************************************)
(* Claims about Translator.translate, checked under SpecTr.                *)
(***************************************************************************)
\* the provider calls of the current translate() made for language l
CallsFor(t, l) == SelectSeq(tr_calls[t], LAMBDA c : c[1] = l)
\* a provider call succeeded: it returned a text, neither None nor an exception
Succeeded(r) == r # None /\ r # Raised
ChainIndex(p) == CHOOSE i \in 1..Len(Chain) : Chain[i] = p

\* C3: translate stops at the first provider, in chain order, that succeeds: the
\* entry of the language is that provider's output and no later provider is
\* invoked for the language.
C3_FirstSuccessWins ==
    \A t \in Threads : \A l \in TargetSet :
        LET cs == CallsFor(t, l)
        IN  \A k \in 1..Len(cs) :
                /\ \A j \in 1..(k - 1) : ChainIndex(cs[j][2]) < ChainIndex(cs[k][2])
                /\ Succeeded(cs[k][3]) =>
                       /\ k = Len(cs)
                       /\ ~(tr_pc[t] = "call" /\ target_languages[tr_lang[t]] = l)
                       /\ l \in DOMAIN translations[t]
                       /\ translations[t][l] = cs[k][3]

\* DeepL failed, Microsoft succeeded, LibreTranslate was not called
C3_Witness ==
    \E t \in Threads : \E l \in DOMAIN translations[t] :
        /\ CallsFor(t, l) = << <<l, "deepl", None>>,
                               <<l, "microsoft", Str(tr_text[t].id, "microsoft")>> >>
        /\ translations[t][l] = Str(tr_text[t].id, "microsoft")

\* C4: if every provider called for a language fails (or none is available), the
\* entry of that language is the source text.
C4_AllFailFallsBack ==
    \A t \in Threads : \A l \in DOMAIN translations[t] :
        (\A k \in 1..Len(CallsFor(t, l)) : ~Succeeded(CallsFor(t, l)[k][3]))
            => translations[t][l] = tr_text[t]

\* all three providers were called for a language and returned None
C4_Witness ==
    \E t \in Threads : \E l \in DOMAIN translations[t] :
        /\ Len(CallsFor(t, l)) = Len(Chain)
        /\ \A k \in 1..Len(Chain) : CallsFor(t, l)[k][3] = None
        /\ translations[t][l] = tr_text[t]

\* the outcome of language l in the current translate() was the fallback
IsFallback(t, l) == service_used[t][l] \in {"fallback", "exception"}

\* C5: the result itself records which entries are fallbacks: two entries of one
\* result that a consumer cannot tell apart have the same outcome.
C5_FallbackDistinguishable ==
    \A t \in Threads : \A l, m \in DOMAIN translations[t] :
        translations[t][l] = translations[t][m] => (IsFallback(t, l) <=> IsFallback(t, m))

\* C6: whatever the providers do, the result of translate_all has an entry for
\* every configured target language.
C6_EveryLanguageHasEntry ==
    /\ \A k \in 1..Len(translation_queue) : TargetSet \subseteq DOMAIN translation_queue[k]
    /\ \A t \in Threads :
           (tr_pc[t] = "sleep" /\ tr_lang[t] = NumLangs) => DOMAIN translations[t] = TargetSet
    /\ \A t \in Threads :
           tr_pc[t] \in {"call", "sleep"} =>
               {target_languages[i] : i \in 1..(tr_lang[t] - 1)} \subseteq DOMAIN translations[t]

\* the last language is done, one language ended in the except branch, and the
\* dict is complete
C6_Witness ==
    \E t \in Threads :
        /\ tr_pc[t] = "sleep"
        /\ tr_lang[t] = NumLangs
        /\ \E l \in DOMAIN service_used[t] : service_used[t][l] = "exception"
        /\ DOMAIN translations[t] = TargetSet

\* C7: one concurrent task per language: while a provider call for one language
\* is in flight, no other language is kept waiting for it.
C7_NoLanguageWaits ==
    \A t \in Threads :
        tr_pc[t] = "call" =>
            \A l \in TargetSet \ {target_languages[tr_lang[t]]} : l \in DOMAIN translations[t]

\* C26: no step of translate or translate_all, whatever its provider calls
\* return, changes a provider-availability flag.
C26_FlagsNotMutatedPerCall == [][services_available' = services_available]_vars

\* a DeepL call of the current translate() failed and DeepL still counts as
\* available
C26_Witness ==
    \E t \in Threads : \E k \in 1..Len(tr_calls[t]) :
        /\ tr_calls[t][k][2] = "deepl"
        /\ tr_calls[t][k][3] \in {None, Raised}
        /\ services_available["deepl"]

\* C27: between two consecutive provider attempts for one language the thread
\* sleeps, and it does not sleep between two languages.
C27_DelayBetweenProvidersOnly ==
    /\ [][\A t \in Threads :
              ~(/\ tr_pc[t] = "call"
                /\ tr_pc'[t] = "call"
                /\ tr_lang'[t] = tr_lang[t]
                /\ tr_provider'[t] # tr_provider[t])]_vars
    /\ [](\A t \in Threads : tr_pc[t] = "sleep" => tr_lang[t] = NumLangs)

\* whether the flag and the key of provider p allow calling it
Callable(p) ==
    /\ services_available[p]
    /\ p = "deepl" => deepl_api_key
    /\ p = "microsoft" => ms_translator_key

\* C30: every provider translate has called, or is calling, has its availability
\* flag set and, for DeepL and Microsoft, its API key set.
C30_OnlyAvailableProvidersCalled ==
    \A t \in Threads :
        /\ \A k \in 1..Len(tr_calls[t]) : Callable(tr_calls[t][k][2])
        /\ tr_pc[t] = "call" => Callable(Chain[tr_provider[t]])

\* DeepL is not available and was skipped: the first call made for the language
\* went to Microsoft, whose flag and key are set
C30_Witness ==
    \E t \in Threads :
        /\ ~services_available["deepl"]
        /\ Len(tr_calls[t]) > 0
        /\ tr_calls[t][1][2] = "microsoft"
        /\ Callable("microsoft")

\* C31: for a non-empty source text every entry translate has stored is a
\* non-empty text: an empty provider result counts as a failure.
C31_EntriesNonEmpty ==
    \A t \in Threads : \A l \in DOMAIN translations[t] :
        Truthy(tr_text[t]) => Truthy(translations[t][l])

(***************************************************************************)
(* Specification of the segmenter alone: one recognition thread of a       *)
(* running pipeline, chunks and timeouts arriving in any order.            *)
(***************************************************************************)
InitSeg ==
    /\ running = TRUE
    /\ text_queue = <<>>
    /\ seg_pc = [s \in Threads |-> IF s = 1 THEN "idle" ELSE "dead"]
    /\ InitSegLocals
    /\ deepl_api_key = FALSE
    /\ ms_translator_key = FALSE
    /\ services_available = [deepl |-> FALSE, microsoft |-> FALSE, libre |-> TRUE]
    /\ translation_queue = <<>>
    /\ tr_pc = [t \in Threads |-> "dead"]
    /\ InitTrLocals
    /\ stopping = FALSE
    /\ tts_pc = [t \in Threads |-> "dead"]
    /\ InitTtsLocals
    /\ InitEngine
    /\ InitStreamer
    /\ InitAux

NextSeg ==
    \/ \E s \in Threads, dur \in ChunkTicks, amp \in Levels, dt \in 0..1 :
           SegChunk(s, dur, amp, dt)
    \/ \E s \in Threads : SegTimeout(s, 1)
    \/ \E s \in Threads :
           /\ seg_pc[s] = "transcribing"
           /\ \E text \in RecognizerOutcomes(audio_data[s]) :
                  \E dt \in 0..1 : TranscribeReturn(s, text, dt)

SpecSeg == InitSeg /\ [][NextSeg]_vars

\* the thread has closed its buffer on the chunk it processed last
Closed(s) == seg_pc[s] = "transcribing" \/ audio_buffer[s] = EmptyBuffer

\* C1: on every chunk arrival the buffer is closed (emitted) if and only if the
\* buffered duration is >= max_len (10 s), or it is >= min_len (1 s) and the wall
\* time since the last emission is >= idle_gap (3 s).
C1_EmitIff ==
    \A s \in Threads :
        buffer_seconds[s] > 0 =>
            (Closed(s) <=>
                \/ buffer_seconds[s] >= max_audio_length
                \/ /\ buffer_seconds[s] >= min_audio_length
                   /\ time_since_last[s] >= idle_gap)

\* an emission by the idle rule: long enough, below max_len, idle for >= 3 s
C1_Witness ==
    \E s \in Threads :
        /\ seg_pc[s] = "transcribing"
        /\ buffer_seconds[s] < max_audio_length
        /\ time_since_last[s] >= idle_gap

\* C2: an emitted utterance whose RMS is below the silence threshold is never
\* passed to _transcribe_audio and leaves no entry in text_queue.
C2_SilenceNeverRecognized ==
    \A i \in 1..Len(emitted) :
        emitted[i] = "below" =>
            /\ \A k \in 1..Len(recog_log) : recog_log[k] # i
            /\ \A k \in 1..Len(text_queue) : text_queue[k].id # i

\* an utterance below the threshold was emitted and discarded: buffer cleared,
\* timer reset, thread back in get_audio_chunk
C2_Witness ==
    \E s \in Threads :
        /\ Len(emitted) > 0
        /\ emitted[Len(emitted)] = "below"
        /\ seg_pc[s] = "idle"
        /\ audio_buffer[s] = EmptyBuffer
        /\ last_transcription_time[s] = current_time[s]
        /\ buffer_seconds[s] >= min_audio_length

(***************************************************************************)
(* Specification of the segmenter fed in real time: the microphone hands   *)
(* over one chunk of one tick every tick (get_audio_chunk timeouts inside  *)
(* a tick change nothing) and the recognizer answers within the tick.      *)
(***************************************************************************)
\* the amplitude of speech
Loud == silence_threshold + 1

NextRealTime ==
    \/ \E s \in Threads, amp \in {0, Loud} : SegChunk(s, 1, amp, 1)
    \/ \E s \in Threads :
           /\ seg_pc[s] = "transcribing"
           /\ \E text \in RecognizerOutcomes(audio_data[s]) : TranscribeReturn(s, text, 0)

SpecRealTime == InitSeg /\ [][NextRealTime]_vars

\* thread s has just handed over, to the recognizer, a buffer that was begun at
\* the last emission
ForwardedFromLastEmission(s) ==
    seg_pc[s] = "transcribing" /\ buffer_seconds[s] = time_since_last[s]

SpeechTicks == (5 * SAMPLE_RATE) \div 2

NoResubmission ==
    \A i, j \in 1..Len(recog_log) : i # j => recog_log[i] # recog_log[j]

\* C16: when the recognizer raises or answers an empty or blank text, nothing is
\* put on text_queue for the utterance, the thread goes on with an empty buffer,
\* and no utterance is ever handed to the recognizer twice.
C16_FailedRecognitionDropped ==
    /\ []NoResubmission
    /\ [][\A s \in Threads :
             (/\ seg_pc[s] = "transcribing"
              /\ seg_pc'[s] # "transcribing"
              /\ recog_result'[s] \in {Raised, EmptyStr, Whitespace})
             => /\ text_queue' = text_queue
                /\ audio_buffer'[s] = EmptyBuffer
                /\ audio_data'[s] = 0
                /\ seg_pc'[s] = IF running THEN "idle" ELSE "dead"]_vars

\* the model raised on the first utterance; the thread has since collected new
\* audio in a fresh buffer and nothing was queued
C16_Witness ==
    \E s \in Threads :
        /\ recog_result[s] = Raised
        /\ seg_pc[s] = "idle"
        /\ recog_log = <<1>>
        /\ text_queue = <<>>
        /\ audio_buffer[s].len > 0
        /\ audio_buffer[s].len < buffer_seconds[s] + 1

\* C17: once a thread is past an emission (the chunk it processed last closed
\* the buffer and the recognizer, if called, has returned), its buffer is empty
\* and its timer holds the time of that emission.
C17_ResetAfterEmission ==
    \A s \in Threads :
        (seg_pc[s] # "transcribing" /\ ShouldEmit(buffer_seconds[s], time_since_last[s]))
        => /\ audio_buffer[s] = EmptyBuffer
           /\ last_transcription_time[s] = current_time[s]

\* a forwarded utterance whose recognition took time: the timer holds the time
\* of the emission, not of the return
C17_Witness ==
    \E s \in Threads :
        /\ seg_pc[s] = "idle"
        /\ ShouldEmit(buffer_seconds[s], time_since_last[s])
        /\ recog_result[s] # None
        /\ audio_buffer[s] = EmptyBuffer
        /\ last_transcription_time[s] = current_time[s]
        /\ now > current_time[s]

(***************************************************************************)
(* Specification of the TTS engine: a constructed engine of any type and   *)
(* one direct call of synthesize_multiple, with or without an embedding.   *)
(***************************************************************************)
\* lines 52-72: engine_type and google_client after the constructor; a google
\* engine whose client could not be made has become an edge-tts engine
EngineConfigs ==
    {<<"edge-tts", FALSE>>, <<"google", TRUE>>, <<"voice-clone", FALSE>>}

\* the dicts synthesize_multiple is called with: per key a text or ""
TextDicts == [{DictOrder[i] : i \in 1..Len(DictOrder)} -> {EmptyStr} \cup {Str(1, "t")}]

InitSyn ==
    /\ running = FALSE
    /\ stopping = FALSE
    /\ text_queue = <<>>
    /\ seg_pc = [s \in Threads |-> "dead"]
    /\ InitSegLocals
    /\ deepl_api_key = FALSE
    /\ ms_translator_key = FALSE
    /\ services_available = [deepl |-> FALSE, microsoft |-> FALSE, libre |-> TRUE]
    /\ translation_queue = <<>>
    /\ tr_pc = [t \in Threads |-> "dead"]
    /\ InitTrLocals
    /\ tts_pc = [t \in Threads |-> "dead"]
    /\ InitTtsLocals
    /\ InitStreamer
    /\ InitAux
    /\ \E c \in EngineConfigs : engine_type = c[1] /\ google_client = c[2]
    /\ InitSynIdle

NextSyn ==
    \/ \E texts \in TextDicts, emb \in BOOLEAN : SynthesizeMultiple(texts, emb)
    \/ /\ syn_pc = "clone"
       /\ \E out \in CloneOutcomes(syn_texts[DictOrder[syn_idx]]) : CloneReturn(out)
    \/ /\ syn_pc = "google"
       /\ \E out \in GoogleOutcomes(syn_texts[DictOrder[syn_idx]]), written \in BOOLEAN :
              GoogleReturn(out, written)
    \/ /\ syn_pc = "edge"
       /\ \E out \in EdgeOutcomes(syn_texts[DictOrder[syn_idx]]), written \in BOOLEAN :
              EdgeReturn(out, written)

SpecSyn == InitSyn /\ [][NextSyn]_vars

\* the backend calls made for language l, in order
CallsOf(l) == SelectSeq(syn_calls, LAMBDA c : c.lang = l)
LastOf(seq) == seq[Len(seq)]

\* C11: with an embedding supplied, synthesize calls the clone backend first,
\* and when that yields a waveform returns it without calling a generic
\* backend; without an embedding it never calls the clone backend and answers
\* what the generic backend answered, an array (possibly empty), not an exception.
C11_ClonePreferred ==
    \A l \in DOMAIN syn_results :
        LET cs == CallsOf(l)
        IN  /\ cs # <<>>
            /\ syn_emb =>
                  /\ cs[1].backend = "clone"
                  /\ cs[1].out.len > 0 => (Len(cs) = 1 /\ syn_results[l] = cs[1].out)
            /\ ~syn_emb =>
                  /\ \A k \in 1..Len(cs) : cs[k].backend # "clone"
                  /\ syn_results[l] = LastOf(cs).out
                  /\ syn_results[l].len >= 0

\* a call with an embedding has returned a cloned waveform for some language
\* after a single backend call
C11_Witness ==
    /\ syn_pc = "done"
    /\ syn_emb
    /\ \E l \in DOMAIN syn_results :
           syn_results[l].by = "clone" /\ Len(CallsOf(l)) = 1

\* C12: when the clone backend fails for a language, the configured generic
\* backend is called for that language and its answer is what synthesize
\* returns; the caller gets an array, never the failure.
C12_CloneFailureFallsBack ==
    /\ syn_pc # "clone" =>
          \A l \in {c.lang : c \in {syn_calls[k] : k \in 1..Len(syn_calls)}} :
              LET cs == CallsOf(l)
              IN  (cs[1].backend = "clone" /\ cs[1].out.len <= 0) =>
                      IF Len(cs) = 1 THEN syn_pc = GenericBackend /\ l \notin DOMAIN syn_results
                      ELSE cs[2].backend = GenericBackend
    /\ \A l \in DOMAIN syn_results :
           LET cs == CallsOf(l)
           IN  (cs[1].backend = "clone" /\ cs[1].out.len <= 0) =>
                   /\ LastOf(cs).backend \in {"google", "edge"}
                   /\ syn_results[l] = LastOf(cs).out
                   /\ syn_results[l].len >= 0

\* the clone backend failed for a language and the generic backend's samples
\* were returned for it
C12_Witness ==
    /\ syn_pc = "done"
    /\ \E l \in DOMAIN syn_results :
           /\ CallsOf(l)[1].backend = "clone"
           /\ CallsOf(l)[1].out = NoneWave
           /\ syn_results[l].len > 0
           /\ syn_results[l].by \in {"google", "edge"}

\* C21: a temp file written by _synthesize_edge_tts or _synthesize_google_tts is
\* gone when the call returns, whatever the call's outcome: between backend
\* calls the temp directory holds no file.
C21_NoTempFileAfterReturn == temp_files = {}

\* C14: when synthesize_multiple has returned, the result has an entry for
\* every language whose text is non-empty, and each entry is what the last
\* backend called for that very language answered, whatever happened to the
\* other languages.
C14_LanguagesIndependent ==
    syn_pc = "done" =>
        \A l \in DOMAIN syn_texts :
            Truthy(syn_texts[l]) =>
                /\ l \in DOMAIN syn_results
                /\ syn_results[l] = LastOf(CallsOf(l)).out

\* synthesis failed for the first language and succeeded for a later one
C14_Witness ==
    /\ syn_pc = "done"
    /\ \E i, j \in 1..Len(DictOrder) :
           /\ i < j
           /\ DictOrder[i] \in DOMAIN syn_results
           /\ DictOrder[j] \in DOMAIN syn_results
           /\ syn_results[DictOrder[i]].len = 0
           /\ syn_results[DictOrder[j]].len > 0

\* C32: a Google call that failed is followed by an Edge TTS call for the same
\* language, whose output is the result of synthesize.
C32_GoogleFailureFallsBackToEdge ==
    \A k \in 1..Len(syn_calls) :
        (syn_calls[k].backend = "google" /\ syn_calls[k].out.len <= 0) =>
            IF k = Len(syn_calls)
            THEN syn_pc = "edge"
            ELSE /\ syn_calls[k + 1].backend = "edge"
                 /\ syn_calls[k + 1].lang = syn_calls[k].lang
                 /\ syn_calls[k].lang \in DOMAIN syn_results =>
                        syn_results[syn_calls[k].lang] = syn_calls[k + 1].out

(***************************************************************************)
(* Specification of the running pipeline: start() has returned with the    *)
(* streamer up, stop() is not called, and the stage loops may meet         *)
(* exceptions.                                                             *)
(***************************************************************************)
InitLoops ==
    /\ running = TRUE
    /\ stopping = FALSE
    /\ text_queue = <<>>
    /\ seg_pc = [s \in Threads |-> IF s = 1 THEN "idle" ELSE "dead"]
    /\ InitSegLocals
    /\ deepl_api_key = FALSE
    /\ ms_translator_key = FALSE
    /\ services_available = [deepl |-> FALSE, microsoft |-> FALSE, libre |-> TRUE]
    /\ translation_queue = <<>>
    /\ tr_pc = [t \in Threads |-> IF t = 1 THEN "idle" ELSE "dead"]
    /\ InitTrLocals
    /\ tts_pc = [t \in Threads |-> IF t = 1 THEN "idle" ELSE "dead"]
    /\ InitTtsLocals
    /\ InitEngine
    /\ st_running = TRUE
    /\ audio_queues = [l \in TargetSet |-> <<>>]
    /\ stream_pc = [l \in TargetSet |-> "idle"]
    /\ pushed = NoDict
    /\ push_count = 0
    /\ published = [l \in TargetSet |-> <<>>]
    /\ InitAux

NextLoops ==
    \/ \E s \in Threads : SegChunk(s, max_audio_length, Loud, 0)
    \/ \E s \in Threads :
           /\ seg_pc[s] = "transcribing"
           /\ \E text \in RecognizerOutcomes(audio_data[s]) : TranscribeReturn(s, text, 0)
    \/ \E s \in Threads : SegRaise(s)
    \/ \E s \in Threads : SegWake(s)
    \/ \E t \in Threads : TranslateGet(t)
    \/ \E t \in Threads :
           /\ tr_pc[t] = "call"
           /\ \E r \in {None, Str(tr_text[t].id, Chain[tr_provider[t]])} :
                  ProviderReturn(t, r)
    \/ \E t \in Threads : SleepReturn(t)
    \/ \E t \in Threads : TrRaise(t)
    \/ \E t \in Threads : TrWake(t)
    \/ \E t \in Threads : TtsGet(t)
    \/ \E t \in Threads :
           /\ tts_pc[t] = "synth"
           /\ \E a \in SynthOutcomes(tts_texts[t][DictOrder[tts_idx[t]]]) :
                  SynthReturn(t, a)
    \/ \E t \in Threads : TtsRaise(t)
    \/ \E t \in Threads : TtsWake(t)
    \/ \E l \in TargetSet, ok \in BOOLEAN : StreamTake(l, ok)
    \/ \E l \in TargetSet : StreamWake(l)

SpecLoops == InitLoops /\ [][NextLoops]_vars

\* C22: while running is set no exception ends a stage loop: the thread of each
\* stage stays alive, and a thread that caught an exception goes back to
\* waiting for the next item.
C22_ExceptionsDoNotEndLoops ==
    /\ [](running => seg_pc[1] # "dead" /\ tr_pc[1] # "dead" /\ tts_pc[1] # "dead")
    /\ [][running =>
             \A t \in Threads :
                 /\ (seg_pc[t] = "error" /\ seg_pc'[t] # "error") => seg_pc'[t] = "idle"
                 /\ (tr_pc[t] = "error" /\ tr_pc'[t] # "error") => tr_pc'[t] = "idle"
                 /\ (tts_pc[t] = "error" /\ tts_pc'[t] # "error") => tts_pc'[t] = "idle"]_vars

\* the segmentation loop and the synthesis loop have each caught an exception;
\* the first utterance's translations were lost to the one in the synthesis
\* loop, and the loop is synthesizing the translations of the second utterance
C22_Witness ==
    /\ loop_errors["seg"] = 1
    /\ loop_errors["tts"] = 1
    /\ tts_pc[1] = "synth"
    /\ tts_texts[1]["zh"].id = 2
    /\ seg_pc[1] = "idle"
    /\ tr_pc[1] = "idle"

(***************************************************************************)
(* Specification of the running pipeline with its threads scheduled: as    *)
(* SpecLoops without exceptions in the stage loops, and every call of the  *)
(* translation and TTS threads returns.                                    *)
(***************************************************************************)
\* a step of the translation thread: main.py lines 196-216
TrStep ==
    \/ \E t \in Threads : TranslateGet(t)
    \/ \E t \in Threads :
           /\ tr_pc[t] = "call"
           /\ \E r \in {None, Str(tr_text[t].id, Chain[tr_provider[t]])} :
                  ProviderReturn(t, r)
    \/ \E t \in Threads : SleepReturn(t)

\* a step of the TTS thread: main.py lines 222-240
TtsStep ==
    \/ \E t \in Threads : TtsGet(t)
    \/ \E t \in Threads :
           /\ tts_pc[t] = "synth"
           /\ \E a \in SynthOutcomes(tts_texts[t][DictOrder[tts_idx[t]]]) :
                  SynthReturn(t, a)

NextRun ==
    \/ \E s \in Threads : SegChunk(s, max_audio_length, Loud, 0)
    \/ \E s \in Threads :
           /\ seg_pc[s] = "transcribing"
           /\ \E text \in RecognizerOutcomes(audio_data[s]) : TranscribeReturn(s, text, 0)
    \/ TrStep
    \/ TtsStep
    \/ \E l \in TargetSet, ok \in BOOLEAN : StreamTake(l, ok)
    \/ \E l \in TargetSet : StreamWake(l)

SpecRun == InitLoops /\ [][NextRun]_vars /\ WF_vars(TrStep) /\ WF_vars(TtsStep)

\* the text of utterance id is waiting in text_queue
InTextQueue(id) == \E i \in 1..Len(text_queue) : text_queue[i].id = id
Logged38(log, id) == \E i \in 1..Len(log) : log[i] = id
NoDuplicate(log) == \A i, j \in 1..Len(log) : log[i] = log[j] => i = j

\* C38: while the pipeline runs and its calls return, every text put on
\* text_queue leads to one translation set on translation_queue, which leads to
\* one push to the streamer; no text yields two sets or two pushes, and nothing
\* is pushed that was not queued as a set.
C38_EveryTextTranslatedAndPushedOnce ==
    /\ \A id \in 1..MaxUtt : InTextQueue(id) ~> Logged38(set_log, id)
    /\ \A id \in 1..MaxUtt : Logged38(set_log, id) ~> Logged38(push_log, id)
    /\ [](/\ NoDuplicate(set_log)
          /\ NoDuplicate(push_log)
          /\ \A i \in 1..Len(push_log) : Logged38(set_log, push_log[i]))

\* two utterances were recognized, translated and pushed, in this order
C38_Witness ==
    /\ Len(emitted) = 2
    /\ set_log = <<1, 2>>
    /\ push_log = <<1, 2>>

(***************************************************************************)
(* Specification of the pipeline: a constructed LiveTranslator (no API     *)
(* keys, so LibreTranslate alone is called), any sequence of start() and   *)
(* stop(), whole utterances arriving as single chunks.                     *)
(***************************************************************************)
InitPipe ==
    /\ running = FALSE
    /\ stopping = FALSE
    /\ text_queue = <<>>
    /\ seg_pc = [s \in Threads |-> "dead"]
    /\ InitSegLocals
    /\ deepl_api_key = FALSE
    /\ ms_translator_key = FALSE
    /\ services_available = [deepl |-> FALSE, microsoft |-> FALSE, libre |-> TRUE]
    /\ translation_queue = <<>>
    /\ tr_pc = [t \in Threads |-> "dead"]
    /\ InitTrLocals
    /\ tts_pc = [t \in Threads |-> "dead"]
    /\ InitTtsLocals
    /\ InitEngine
    /\ InitStreamer
    /\ InitAux

NextPipe ==
    \/ \E ok \in BOOLEAN : Start(ok)
    \/ StopBegin
    \/ StopEnd
    \/ \E s \in Threads : SegChunk(s, max_audio_length, silence_threshold + 1, 0)
    \/ \E s \in Threads : SegTimeout(s, 0)
    \/ \E s \in Threads :
           /\ seg_pc[s] = "transcribing"
           /\ \E text \in RecognizerOutcomes(audio_data[s]) : TranscribeReturn(s, text, 0)
    \/ \E t \in Threads : TranslateGet(t)
    \/ \E t \in Threads : TranslateTimeout(t)
    \/ \E t \in Threads :
           /\ tr_pc[t] = "call"
           /\ \E r \in {None, Str(tr_text[t].id, Chain[tr_provider[t]])} :
                  ProviderReturn(t, r)
    \/ \E t \in Threads : SleepReturn(t)
    \/ \E t \in Threads : TtsGet(t)
    \/ \E t \in Threads : TtsTimeout(t)
    \/ \E t \in Threads :
           /\ tts_pc[t] = "synth"
           /\ \E a \in SynthOutcomes(tts_texts[t][DictOrder[tts_idx[t]]]) :
                  SynthReturn(t, a)
    \/ \E l \in TargetSet, ok \in BOOLEAN : StreamTake(l, ok)
    \/ \E l \in TargetSet : StreamWake(l)

SpecPipe == InitPipe /\ [][NextPipe]_vars

(***************************************************************************)
(* Claims about the pipeline, checked under SpecPipe.                      *)
(***************************************************************************)
Pos(seq, x) == CHOOSE i \in 1..Len(seq) : seq[i] = x

C9_SingleRecognitionInFlight ==
    Cardinality({s \in Threads : seg_pc[s] = "transcribing"}) <= 1

\* the push of `lang` from the dict of the last push_audio_multiple call was rejected
Rejected(lang) == lang \in DOMAIN pushed /\ pushed[lang].len <= 0
\* ... was acceptable
Acceptable(lang) == lang \in DOMAIN pushed /\ pushed[lang].len > 0

\* C10: a rejected push for one language, or an exception in one language's
\* streaming thread, leaves the delivery to every other language as it would
\* have been: a push_audio_multiple call on a running streamer appends each
\* acceptable audio to its own language's queue in that very call, whatever
\* happened to the other entries, and a step in which one streaming thread
\* fails changes no other language's queue, thread or published items.
C10_PublishFailureIsolated ==
    [][ /\ (push_count' # push_count /\ st_running) =>
              \A l \in TargetSet :
                  audio_queues'[l] =
                      IF l \in DOMAIN pushed' /\ pushed'[l].len > 0
                      THEN Append(audio_queues[l], pushed'[l])
                      ELSE audio_queues[l]
        /\ \A l \in TargetSet :
              (stream_pc[l] # "error" /\ stream_pc'[l] = "error") =>
                  \A k \in TargetSet \ {l} :
                      /\ audio_queues'[k] = audio_queues[k]
                      /\ stream_pc'[k] = stream_pc[k]
                      /\ published'[k] = published[k]
      ]_vars

\* the push for l was rejected and l's streaming thread is in its error sleep,
\* while k's audio of the same utterance was taken by k's streaming thread
C10_Witness ==
    \E l, k \in TargetSet :
        /\ l # k
        /\ Rejected(l)
        /\ Acceptable(k)
        /\ stream_pc[l] = "error"
        /\ stream_pc[k] = "pushing"
        /\ published[k] # <<>>
        /\ published[k][Len(published[k])] = pushed[k].id

\* C13: when synthesis fails for a language, the language's translated text
\* still reaches the publisher. The streamer takes in nothing but the audio
\* queues, so whatever is delivered for a language shows as an item added to
\* its queue by the push_audio_multiple call of the utterance.
C13_TextDeliveredWithoutAudio ==
    [][\A t \in Threads :
          (tts_pc[t] = "synth" /\ tts_pc'[t] # "synth" /\ st_running) =>
              \A l \in TargetSet :
                  Truthy(tts_texts[t][l]) => audio_queues'[l] # audio_queues[l]]_vars

\* C15: while a synthesis call for one language is in flight (and may never
\* return), no other language of the same utterance is waiting for it.
C15_NoSiblingWaitsForSynthesis ==
    \A t \in Threads :
        tts_pc[t] = "synth" =>
            \A l \in TargetSet \ {DictOrder[tts_idx[t]]} :
                Truthy(tts_texts[t][l]) => l \in DOMAIN audio_data_dict[t]

C37_OneThreadPerStage ==
    /\ Cardinality({t \in Threads : seg_pc[t] # "dead"}) <= 1
    /\ Cardinality({t \in Threads : tr_pc[t] # "dead"}) <= 1
    /\ Cardinality({t \in Threads : tts_pc[t] # "dead"}) <= 1

\* C24: the queues between recognition and the later stages have a fixed
\* capacity and drop their oldest item when full. MaxUtt utterances are
\* produced in a behaviour, so a queue with any capacity that sustained
\* backpressure can reach never holds all of them at once.
C24_PendingQueuesBounded ==
    /\ Len(text_queue) < MaxUtt
    /\ Len(translation_queue) < MaxUtt
    /\ \A l \in TargetSet : Len(audio_queues[l]) < MaxUtt

(***************************************************************************)
(* Specification of the streamer: a constructed LiveKitStreamer, calls of  *)
(* start() and stop() in sequence, push_audio calls from the TTS thread,   *)
(* and the streaming threads.                                              *)
(***************************************************************************)
InitStreamerSpec == InitPipe

\* "zh" is in every dict the TTS thread pushes and has no queue
PushLangs == TargetSet \cup {"zh"}

NextStreamer ==
    \/ \E ok \in BOOLEAN : StStart(ok)
    \/ StStop
    \/ \E lang \in PushLangs, audio \in {NoAudio, EmptyAudio, Audio(push_count + 1)} :
           PushCheck(lang, audio)
    \/ PushPut
    \/ \E l \in TargetSet, ok \in BOOLEAN : StreamTake(l, ok)
    \/ \E l \in TargetSet : StreamWake(l)

SpecStreamer == InitStreamerSpec /\ [][NextStreamer]_vars

LastCall == st_calls[Len(st_calls)]

\* C33: a push_audio call puts nothing if the streamer is not running, the
\* language has no queue or the audio is None or empty; otherwise it appends its
\* audio to the queue of its language and changes no other queue.
C33_PushAudioFrame ==
    /\ [][push_count' # push_count =>
             /\ audio_queues' = audio_queues
             /\ last_push'.accepted <=>
                    /\ st_running
                    /\ last_push'.lang \in TargetSet
                    /\ last_push'.audio \notin {NoAudio, EmptyAudio}
             /\ (push_call' # NoCall) <=> last_push'.accepted]_vars
    /\ [][(push_call # NoCall /\ push_call' = NoCall) =>
             /\ audio_queues'[push_call.lang] =
                    Append(audio_queues[push_call.lang], push_call.audio)
             /\ \A m \in TargetSet \ {push_call.lang} :
                    audio_queues'[m] = audio_queues[m]]_vars

\* all kinds of call were made: the last one was for a language with a queue
\* and empty audio and was rejected, and an earlier one left its audio in the
\* queue of its language only
C33_Witness ==
    /\ last_push.lang \in TargetSet
    /\ last_push.audio = EmptyAudio
    /\ ~last_push.accepted
    /\ st_running
    /\ \E l \in TargetSet :
           /\ audio_queues[l] = <<Audio(1)>>
           /\ \A m \in TargetSet \ {l} : audio_queues[m] = <<>>

\* C34: a start() whose room preparation fails leaves running false and starts
\* no thread, and a push_audio made while running is false is dropped; a
\* start() whose room preparation succeeds starts one thread per language.
C34_FailedStartStartsNothing ==
    /\ [][(Len(st_calls') > Len(st_calls) /\ LastCall'[1] = "start" /\ ~st_running) =>
             IF LastCall'[3]
             THEN /\ st_running'
                  /\ \A l \in TargetSet :
                         /\ stream_pc'[l] = "idle"
                         /\ Alive(stream_pc', st_extra', l) =
                                Alive(stream_pc, st_extra, l) + 1
             ELSE /\ ~st_running'
                  /\ \A l \in TargetSet :
                         Alive(stream_pc', st_extra', l) = Alive(stream_pc, st_extra, l)]_vars
    /\ [][(push_count' # push_count /\ ~st_running) =>
             /\ ~last_push'.accepted
             /\ push_call' = NoCall
             /\ audio_queues' = audio_queues]_vars

\* the last start() failed, and a push_audio of real audio for a language with
\* a queue, made after it, was dropped
C34_Witness ==
    /\ st_calls # <<>>
    /\ LastCall = <<"start", FALSE, FALSE>>
    /\ last_push.after = Len(st_calls)
    /\ last_push.lang \in TargetSet
    /\ last_push.audio.len > 0
    /\ ~last_push.accepted
    /\ \A l \in TargetSet : stream_pc[l] = "dead" /\ audio_queues[l] = <<>>

\* C35: at most one streaming thread per language is alive.
C35_OneStreamingThreadPerLanguage ==
    \A l \in TargetSet : Alive(stream_pc, st_extra, l) <= 1

\* start(), stop() and start() again: every language has its one thread
C35_Witness ==
    /\ st_calls = << <<"start", FALSE, TRUE>>, <<"stop", TRUE, TRUE>>,
                     <<"start", FALSE, TRUE>> >>
    /\ \A l \in TargetSet : Alive(stream_pc, st_extra, l) = 1

\* C36: from the return of stop() to the next start() every audio queue is
\* empty.
C36_QueuesEmptyAfterStop ==
    (st_calls # <<>> /\ LastCall[1] = "stop") =>
        \A l \in TargetSet : audio_queues[l] = <<>>

(***************************************************************************)
(* Specification of the capture manager: initialize(), the input thread,   *)
(* the event loop running the submitted puts, the consumer and cleanup().  *)
(***************************************************************************)
InitCapture == InitPipe

NextCapture ==
    \/ \E use_mock_input \in BOOLEAN : CapInitialize(use_mock_input)
    \/ \E ok \in BOOLEAN : CapOpen(ok)
    \/ \E ok, loop_ok \in BOOLEAN : CapRead(ok, loop_ok)
    \/ \E loop_ok \in BOOLEAN : CapMock(loop_ok)
    \/ LoopInsert
    \/ CapGet
    \/ CapCleanup

SpecCapture == InitCapture /\ [][NextCapture]_vars

C25_FailureSubstitutesSimulatedSource ==
    cap_error \in {"open", "read"} => cap_source = "mock"

(***************************************************************************)
(* Specification of the voice profile store: a constructed manager with    *)
(* whatever speaker mapping it loaded, and the calls made on it.           *)
(***************************************************************************)
\* lines 139-157: _load_speaker_mapping leaves the dict json.load returned, or {}
SpeakerMappings ==
    {d \in SUBSET (CloneLangs \X Speakers) : IsDict(d)}

InitClone ==
    /\ running = FALSE
    /\ stopping = FALSE
    /\ text_queue = <<>>
    /\ seg_pc = [s \in Threads |-> "dead"]
    /\ InitSegLocals
    /\ deepl_api_key = FALSE
    /\ ms_translator_key = FALSE
    /\ services_available = [deepl |-> FALSE, microsoft |-> FALSE, libre |-> TRUE]
    /\ translation_queue = <<>>
    /\ tr_pc = [t \in Threads |-> "dead"]
    /\ InitTrLocals
    /\ tts_pc = [t \in Threads |-> "dead"]
    /\ InitTtsLocals
    /\ InitEngine
    /\ InitStreamer
    /\ InitCaptureIdle
    /\ InitStreamerCalls
    /\ InitLogs
    /\ loop_errors = [g \in Stages |-> 0]
    /\ active_speakers \in SpeakerMappings
    /\ InitTasks
    /\ set_calls = <<>>
    /\ status_out = NoStatus

NextClone ==
    \/ \E lang_code \in CloneLangs, speaker_id \in Speakers :
           SetActiveSpeaker(lang_code, speaker_id)
    \/ \E k \in Tasks, kind \in Callers : Call(k, kind)
    \/ \E k \in Tasks : TaskBegin(k)
    \/ \E k \in Tasks : CheckFlags(k)
    \/ \E k \in Tasks : AcquireLock(k)
    \/ \E k \in Tasks : EnterBody(k)
    \/ \E k \in Tasks, ok \in BOOLEAN : LoadBody(k, ok)
    \/ \E k \in Tasks : AfterInitialize(k)
    \/ \E k \in Tasks, ok \in BOOLEAN : Embed(k, ok)
    \/ \E speaker_id \in Speakers, embedding, sample, load_ok, embed_ok \in BOOLEAN :
           CloneStatus(speaker_id, embedding, sample, load_ok, embed_ok)
    \/ \E user_id \in Speakers : GetProcessingStatus(user_id)

SpecClone == InitClone /\ [][NextClone]_vars

\* C28: each language has at most one active speaker in every state, and a step
\* that changes the mapping puts one speaker in the place of one language's
\* speaker and leaves every other language's speaker as it was.
C28_OneActiveSpeakerPerLanguage ==
    /\ [](\A l \in CloneLangs : Cardinality({p \in active_speakers : p[1] = l}) <= 1)
    /\ [][active_speakers' # active_speakers =>
             \E l \in CloneLangs, id \in Speakers :
                 /\ DictGet(active_speakers', l) = id
                 /\ \A m \in CloneLangs \ {l} :
                        DictGet(active_speakers', m) = DictGet(active_speakers, m)]_vars

\* the last set_active_speaker call found another speaker active for its
\* language and replaced it, while another language has an active speaker
C28_Witness ==
    /\ set_calls # <<>>
    /\ LET c == set_calls[Len(set_calls)]
       IN  /\ c[3] # 0
           /\ c[3] # c[2]
           /\ DictGet(active_speakers, c[1]) = c[2]
           /\ \E m \in CloneLangs \ {c[1]} : DictGet(active_speakers, m) # 0

\* C29: the status reported for a speaker by clone_status or
\* get_processing_status is one of pending, ready, failed and not_found.
C29_StatusInRange == status_out # NoStatus => status_out.status \in StatusRange

\* the statuses clone_status itself reports outside its except branch
CloneStatusInRange ==
    status_out.by = "clone_status" => status_out.status \in StatusRange

\* the coroutine is executing the loading body, lines 57-115
InBody(k) == tasks[k].pc = "loading"

\* C39: at most one coroutine at a time is executing the loading body of
\* _initialize_models, loading_in_progress is clear whenever none is, and
\* models_loaded, once set, stays set.
C39_LoadingSerialised ==
    /\ [](/\ Cardinality({k \in Tasks : InBody(k)}) <= 1
          /\ (loading_in_progress => \E k \in Tasks : InBody(k)))
    /\ [][models_loaded => models_loaded']_vars

\* a coroutine is in the loading body, with the flag set, after another's
\* load failed and left the flag clear, while a third waits to be run
C39_Witness ==
    \E k, j, i \in Tasks :
        /\ InBody(k) /\ loading_in_progress /\ load_lock = k
        /\ tasks[j].attempt = "failed" /\ tasks[j].pc \in {"done", "after"}
        /\ tasks[i].pc = "start"

\* C40: a process_voice_sample or synthesize call whose sample or embedding
\* exists gives up with "models not loaded" only after a load it ran itself
\* failed.
C40_GivesUpOnlyAfterFailedLoad ==
    \A k \in Tasks :
        tasks[k].result = "not_loaded" =>
            tasks[k].kind \in Callers /\ tasks[k].attempt = "failed"

\* a call made after the scheduled load had failed ran the load again, which
\* failed too, and gave up; another call then loaded the models itself and
\* went on
C40_Witness ==
    \E k, j \in Tasks :
        /\ tasks[1].attempt = "failed"
        /\ tasks[k].kind \in Callers
        /\ tasks[k].result = "not_loaded" /\ tasks[k].attempt = "failed"
        /\ tasks[j].kind \in Callers
        /\ tasks[j].attempt = "ok" /\ tasks[j].pc = "embed"

\* the queue itself never holds more than its bound
QueueWithinMaxsize == audio_queue <= AUDIO_QUEUE_MAXSIZE

====
